---------------------------- MODULE Spec2Model ----------------------------
(***************************************************************************)
(* TaskMaster: the notification fan-out (NotificationService over the      *)
(* process-local ConnectionManager) and the authorization rules of the     *)
(* task and team services, over a database session that get_db commits or  *)
(* rolls back per request.                                                 *)
(*                                                                         *)
(* One request handler runs at a time.  A handler runs atomically up to a  *)
(* channel send (the only suspension point at which another task touches   *)
(* state the handler reads: the registry); websocket endpoint events       *)
(* interleave between the sends of send_personal_message.                  *)
(***************************************************************************)
EXTENDS Integers, Sequences, FiniteSets, TLC

(* ------------------------------ bounds -------------------------------- *)
MaxTasks == 1
MaxTeams == 1
MaxNotifs == 2
MaxLogs == 4
MaxChans == 2
MaxFrames == 3
MaxPage == 2
MaxSize == 2
MaxTokens == 3

(* ------------------------------ users --------------------------------- *)
\* The users table: two ordinary users and one admin, all active.
UserIds == {"alice", "bob", "root"}
NoUser == "none"
\* A well-formed id that is in no users row (add_member's target check).
GhostUser == "ghost"

\* User.role: "user" | "admin"
UserRole(u) == IF u = "root" THEN "admin" ELSE "user"

TeamMemberRole == {"member", "manager"}

\* Outcomes of a request.
Outcomes == {"ok", "NotFound", "Forbidden", "Conflict", "TypeError", "IntegrityError", "DbError"}

\* The table whose INSERT fails in a request (an injected flush failure).
Faults == {"none", "activity_logs", "notifications"}

(* ----------------------------- database ------------------------------- *)
\* tasks, teams and notifications are keyed by their position (the id);
\* team_members is keyed by (team_id, user_id); activity_logs is counted.
\* hash is users.refresh_token_hash.  minted holds, for the record, the user
\* each token pair a committed request handed out was made for: the jti of a
\* pair is its position, as secrets.token_hex does not repeat.
NoHash == [sha256 |-> [sub |-> NoUser, type |-> "none", jti |-> 0]]

EmptyDb ==
    [tasks |-> <<>>, teams |-> <<>>, members |-> {}, notifs |-> <<>>, logs |-> 0,
     hash |-> [u \in UserIds |-> NoHash], minted |-> <<>>]

NoTeam == 0
Unset == "unset"
\* TaskUpdate.team_id left unset (team ids are numbers).
UnsetTeam == -1

TaskExists(s, task_id) == task_id \in 1..Len(s.tasks)

TeamExists(s, team_id) == team_id \in 1..Len(s.teams) /\ s.teams[team_id].live

\* CRUDTeam.get_member: the membership row of (team_id, user_id), or none.
NoMember == [team_id |-> 0, user_id |-> NoUser, role |-> "none"]

get_member(s, team_id, user_id) ==
    LET rows == {m \in s.members : m.team_id = team_id /\ m.user_id = user_id}
    IN  IF rows = {} THEN NoMember ELSE CHOOSE m \in rows : TRUE

\* CRUDTeam.add_member: inserts a row.
crud_add_member(s, team_id, user_id, role) ==
    [s EXCEPT !.members = @ \cup {[team_id |-> team_id, user_id |-> user_id, role |-> role]}]

\* CRUDTeam.remove_member: deletes the row; the caller tests the result for None.
crud_remove_member(s, team_id, user_id) ==
    [s EXCEPT !.members = @ \ {get_member(s, team_id, user_id)}]

\* CRUDTeam.update_member_role
crud_update_member_role(s, team_id, user_id, role) ==
    LET m == get_member(s, team_id, user_id)
    IN  [s EXCEPT !.members = (@ \ {m}) \cup {[m EXCEPT !.role = role]}]

\* CRUDTeam.create_team
crud_create_team(s, name, owner_id) ==
    [s EXCEPT !.teams = Append(@, [owner_id |-> owner_id, name |-> name, live |-> TRUE])]

\* CRUDBase.update on a team with TeamUpdate(name=...)
crud_update_team(s, team_id, name) ==
    [s EXCEPT !.teams[team_id].name = name]

\* CRUDBase.remove on a team: team_members rows cascade, tasks.team_id is set NULL.
crud_remove_team(s, team_id) ==
    [s EXCEPT !.teams[team_id].live = FALSE,
              !.members = {m \in @ : m.team_id # team_id},
              !.tasks = [i \in 1..Len(@) |->
                            IF @[i].team_id = team_id
                            THEN [@[i] EXCEPT !.team_id = NoTeam] ELSE @[i]]]

\* CRUDTask.create_task
crud_create_task(s, task_in, owner_id) ==
    [s EXCEPT !.tasks = Append(@, [owner_id |-> owner_id,
                                   assigned_to_id |-> task_in.assigned_to_id,
                                   team_id |-> task_in.team_id,
                                   is_archived |-> FALSE])]

\* CRUDBase.update on a task: only the fields set in the schema are written.
crud_update_task(s, task_id, obj_in) ==
    [s EXCEPT !.tasks[task_id] =
        [@ EXCEPT !.assigned_to_id =
                      IF obj_in.assigned_to_id = Unset THEN @ ELSE obj_in.assigned_to_id,
                  !.team_id =
                      IF obj_in.team_id = UnsetTeam THEN @ ELSE obj_in.team_id]]

\* CRUDTask.archive
crud_archive(s, task_id) ==
    [s EXCEPT !.tasks[task_id].is_archived = TRUE]


(* --------------------- handler results and steps ---------------------- *)
\* What the synchronous part of a service method leaves behind: the exception
\* it raised ("none" if it did not), the session after its writes, and the
\* notifications and activity-log writes it still has to make, in code order.
\* detail is the exception's message where the methods of one handler differ in it.
RaiseDetail(s, exc, detail) == [exc |-> exc, detail |-> detail, sess |-> s, todo |-> <<>>]

Raise(s, exc) == RaiseDetail(s, exc, exc)

Cont(s, todo) == [exc |-> "none", detail |-> "none", sess |-> s, todo |-> todo]

LogItem == [k |-> "log", user_id |-> NoUser, type |-> "none", ref |-> 0]

NotifyItem(user_id, type, ref) ==
    [k |-> "notify", user_id |-> user_id, type |-> type, ref |-> ref]

\* `await f(...)` as the caller sees it: the exception f raised; else, f being
\* an `async def`, its completion; else the None a plain `def` returned, which
\* is not awaitable.
Await(is_async, allowed) ==
    IF ~allowed THEN "Forbidden" ELSE IF is_async THEN "ok" ELSE "TypeError"

\* A foreign key tasks.team_id -> teams.id: the flush fails on a missing team.
TeamFkOk(s, team_id) == team_id = NoTeam \/ TeamExists(s, team_id)

(* --------------------------- task service ----------------------------- *)
\* An _assert_can_view that forgets the assignee.
_assert_can_view_no_assignee(s, task, user) ==
    IF UserRole(user) = "admin" THEN TRUE
    ELSE IF task.owner_id = user THEN TRUE
    ELSE IF task.team_id # NoTeam /\ get_member(s, task.team_id, user) # NoMember THEN TRUE
    ELSE FALSE

\* An _assert_can_view that lets every user see the tasks of a team.
_assert_can_view_team_task(s, task, user) ==
    IF UserRole(user) = "admin" THEN TRUE
    ELSE IF task.owner_id = user \/ task.assigned_to_id = user THEN TRUE
    ELSE IF task.team_id # NoTeam THEN TRUE
    ELSE FALSE

\* TaskService._assert_can_view: TRUE iff it returns without raising.
_assert_can_view(s, task, user) ==
    IF UserRole(user) = "admin" THEN TRUE
    ELSE IF task.owner_id = user \/ task.assigned_to_id = user THEN TRUE
    ELSE IF task.team_id # NoTeam /\ get_member(s, task.team_id, user) # NoMember THEN TRUE
    ELSE FALSE

\* An _assert_can_modify that lets every member of the task's team through.
_assert_can_modify_any_member(s, task, user) ==
    IF UserRole(user) = "admin" THEN TRUE
    ELSE IF task.owner_id = user THEN TRUE
    ELSE IF task.team_id # NoTeam /\ get_member(s, task.team_id, user) # NoMember THEN TRUE
    ELSE FALSE

\* TaskService._assert_can_modify: TRUE iff it returns without raising.
_assert_can_modify(s, task, user) ==
    IF UserRole(user) = "admin" THEN TRUE
    ELSE IF task.owner_id = user THEN TRUE
    ELSE IF task.team_id # NoTeam
            /\ get_member(s, task.team_id, user) # NoMember
            /\ get_member(s, task.team_id, user).role = "manager" THEN TRUE
    ELSE FALSE

\* A create_task that asks an admin for a membership too.
create_task_members_only(s, task_in, current_user) ==
    IF task_in.team_id # NoTeam
       /\ get_member(s, task_in.team_id, current_user) = NoMember
    THEN Raise(s, "Forbidden")
    ELSE IF ~TeamFkOk(s, task_in.team_id) THEN Raise(s, "IntegrityError")
    ELSE LET s1 == crud_create_task(s, task_in, current_user)
             id == Len(s1.tasks)
         IN  Cont(s1, <<LogItem>> \o
                      (IF task_in.assigned_to_id # NoUser
                          /\ task_in.assigned_to_id # current_user
                       THEN <<NotifyItem(task_in.assigned_to_id, "task_assigned", id)>>
                       ELSE <<>>))

\* TaskService.create_task
create_task(s, task_in, current_user) ==
    IF task_in.team_id # NoTeam
       /\ get_member(s, task_in.team_id, current_user) = NoMember
       /\ UserRole(current_user) # "admin"
    THEN Raise(s, "Forbidden")
    ELSE IF ~TeamFkOk(s, task_in.team_id) THEN Raise(s, "IntegrityError")
    ELSE LET s1 == crud_create_task(s, task_in, current_user)
             id == Len(s1.tasks)
         IN  Cont(s1, <<LogItem>> \o
                      (IF task_in.assigned_to_id # NoUser
                          /\ task_in.assigned_to_id # current_user
                       THEN <<NotifyItem(task_in.assigned_to_id, "task_assigned", id)>>
                       ELSE <<>>))

\* TaskService.get_task
get_task(s, task_id, current_user) ==
    IF ~TaskExists(s, task_id) THEN Raise(s, "NotFound")
    ELSE IF Await(TRUE, _assert_can_view(s, s.tasks[task_id], current_user)) # "ok"
    THEN Raise(s, Await(TRUE, _assert_can_view(s, s.tasks[task_id], current_user)))
    ELSE Cont(s, <<>>)

\* TaskService.update_task
update_task(s, task_id, task_in, current_user) ==
    IF ~TaskExists(s, task_id) THEN Raise(s, "NotFound")
    ELSE IF Await(TRUE, _assert_can_modify(s, s.tasks[task_id], current_user)) # "ok"
    THEN Raise(s, Await(TRUE, _assert_can_modify(s, s.tasks[task_id], current_user)))
    ELSE IF task_in.team_id # UnsetTeam /\ ~TeamFkOk(s, task_in.team_id) THEN Raise(s, "IntegrityError")
    ELSE LET task == s.tasks[task_id]
             old_assignee == task.assigned_to_id
             new_assignee == task_in.assigned_to_id
             s1 == crud_update_task(s, task_id, task_in)
         IN  Cont(s1, <<LogItem>> \o
                      (IF new_assignee \notin {Unset, NoUser}
                          /\ new_assignee # old_assignee
                          /\ new_assignee # current_user
                       THEN <<NotifyItem(new_assignee, "task_assigned", task_id)>>
                       ELSE <<>>) \o
                      (IF task.owner_id # current_user
                       THEN <<NotifyItem(task.owner_id, "task_updated", task_id)>>
                       ELSE <<>>))

\* TaskService.delete_task
delete_task(s, task_id, current_user) ==
    IF ~TaskExists(s, task_id) THEN Raise(s, "NotFound")
    ELSE IF Await(TRUE, _assert_can_modify(s, s.tasks[task_id], current_user)) # "ok"
    THEN Raise(s, Await(TRUE, _assert_can_modify(s, s.tasks[task_id], current_user)))
    ELSE Cont(crud_archive(s, task_id), <<LogItem>>)

\* An assign_task that writes the assignee before it checks the caller.
assign_task_write_first(s, task_id, assignee_id, current_user) ==
    IF ~TaskExists(s, task_id) THEN Raise(s, "NotFound")
    ELSE IF Await(TRUE, _assert_can_modify(s, s.tasks[task_id], current_user)) # "ok"
    THEN Raise(crud_update_task(s, task_id,
                                [assigned_to_id |-> assignee_id, team_id |-> UnsetTeam]),
               Await(TRUE, _assert_can_modify(s, s.tasks[task_id], current_user)))
    ELSE Cont(crud_update_task(s, task_id, [assigned_to_id |-> assignee_id, team_id |-> UnsetTeam]),
              (IF assignee_id # current_user
               THEN <<NotifyItem(assignee_id, "task_assigned", task_id)>>
               ELSE <<>>) \o <<LogItem>>)

\* TaskService.assign_task
assign_task(s, task_id, assignee_id, current_user) ==
    IF ~TaskExists(s, task_id) THEN Raise(s, "NotFound")
    ELSE IF Await(TRUE, _assert_can_modify(s, s.tasks[task_id], current_user)) # "ok"
    THEN Raise(s, Await(TRUE, _assert_can_modify(s, s.tasks[task_id], current_user)))
    ELSE Cont(crud_update_task(s, task_id, [assigned_to_id |-> assignee_id, team_id |-> UnsetTeam]),
              (IF assignee_id # current_user
               THEN <<NotifyItem(assignee_id, "task_assigned", task_id)>>
               ELSE <<>>) \o <<LogItem>>)

(* --------------------------- team service ----------------------------- *)
\* An _assert_member_or_admin that asks for the manager role.
_assert_member_or_admin_managers_only(s, team_id, user) ==
    IF UserRole(user) = "admin" THEN TRUE
    ELSE \/ get_member(s, team_id, user).role = "manager"
         \/ s.teams[team_id].owner_id = user

\* TeamService._assert_member_or_admin (async def): TRUE iff it does not raise.
_assert_member_or_admin(s, team_id, user) ==
    IF UserRole(user) = "admin" THEN TRUE
    ELSE ~(get_member(s, team_id, user) = NoMember /\ s.teams[team_id].owner_id # user)

\* An _assert_manager_or_admin that lets every member of the team through.
_assert_manager_or_admin_any_member(s, team_id, user) ==
    IF UserRole(user) = "admin" \/ s.teams[team_id].owner_id = user THEN TRUE
    ELSE get_member(s, team_id, user) # NoMember

\* TeamService._assert_manager_or_admin (async def): TRUE iff it does not raise.
_assert_manager_or_admin(s, team_id, user) ==
    IF UserRole(user) = "admin" \/ s.teams[team_id].owner_id = user THEN TRUE
    ELSE ~(get_member(s, team_id, user) = NoMember
           \/ get_member(s, team_id, user).role # "manager")

\* An _assert_owner_or_admin that lets the team's managers through as well.
_assert_owner_or_admin_or_manager(s, team_id, user) ==
    \/ UserRole(user) = "admin"
    \/ s.teams[team_id].owner_id = user
    \/ get_member(s, team_id, user).role = "manager"

\* TeamService._assert_owner_or_admin (a plain def): TRUE iff it does not raise.
_assert_owner_or_admin(s, team_id, user) ==
    UserRole(user) = "admin" \/ s.teams[team_id].owner_id = user

\* A create_team that leaves the creator without a membership row.
create_team_ownerless(s, name, current_user) ==
    Cont(crud_create_team(s, name, current_user), <<LogItem>>)

\* TeamService.create_team
create_team(s, name, current_user) ==
    LET s1 == crud_create_team(s, name, current_user)
        s2 == crud_add_member(s1, Len(s1.teams), current_user, "manager")
    IN  Cont(s2, <<LogItem>>)

\* TeamService.get_team
get_team(s, team_id, current_user) ==
    IF ~TeamExists(s, team_id) THEN Raise(s, "NotFound")
    ELSE IF Await(TRUE, _assert_member_or_admin(s, team_id, current_user)) # "ok"
    THEN Raise(s, Await(TRUE, _assert_member_or_admin(s, team_id, current_user)))
    ELSE Cont(s, <<>>)

\* TeamService.update_team: _assert_owner_or_admin is awaited though a plain def.
update_team(s, team_id, name, current_user) ==
    IF ~TeamExists(s, team_id) THEN Raise(s, "NotFound")
    ELSE IF Await(FALSE, _assert_owner_or_admin(s, team_id, current_user)) # "ok"
    THEN Raise(s, Await(FALSE, _assert_owner_or_admin(s, team_id, current_user)))
    ELSE Cont(crud_update_team(s, team_id, name), <<LogItem>>)

\* TeamService.delete_team
delete_team(s, team_id, current_user) ==
    IF ~TeamExists(s, team_id) THEN Raise(s, "NotFound")
    ELSE IF Await(FALSE, _assert_owner_or_admin(s, team_id, current_user)) # "ok"
    THEN Raise(s, Await(FALSE, _assert_owner_or_admin(s, team_id, current_user)))
    ELSE Cont(crud_remove_team(s, team_id), <<LogItem>>)

\* An add_member without the check for an existing membership.
add_member_unchecked(s, team_id, member_in, current_user) ==
    IF ~TeamExists(s, team_id) THEN Raise(s, "NotFound")
    ELSE IF Await(TRUE, _assert_manager_or_admin(s, team_id, current_user)) # "ok"
    THEN Raise(s, Await(TRUE, _assert_manager_or_admin(s, team_id, current_user)))
    ELSE IF member_in.user_id \notin UserIds THEN Raise(s, "NotFound")
    ELSE Cont(crud_add_member(s, team_id, member_in.user_id, member_in.role),
              <<NotifyItem(member_in.user_id, "team_invite", team_id), LogItem>>)

\* TeamService.add_member
add_member(s, team_id, member_in, current_user) ==
    IF ~TeamExists(s, team_id) THEN Raise(s, "NotFound")
    ELSE IF Await(TRUE, _assert_manager_or_admin(s, team_id, current_user)) # "ok"
    THEN Raise(s, Await(TRUE, _assert_manager_or_admin(s, team_id, current_user)))
    ELSE IF member_in.user_id \notin UserIds THEN Raise(s, "NotFound")
    ELSE IF get_member(s, team_id, member_in.user_id) # NoMember THEN Raise(s, "Conflict")
    ELSE Cont(crud_add_member(s, team_id, member_in.user_id, member_in.role),
              <<NotifyItem(member_in.user_id, "team_invite", team_id), LogItem>>)

\* A remove_member that checks the caller's privilege before the owner rule.
remove_member_privilege_first(s, team_id, user_id, current_user) ==
    IF ~TeamExists(s, team_id) THEN Raise(s, "NotFound")
    ELSE IF Await(TRUE, _assert_manager_or_admin(s, team_id, current_user)) # "ok"
    THEN RaiseDetail(s, Await(TRUE, _assert_manager_or_admin(s, team_id, current_user)),
                     "Only team managers or admins can perform this action")
    ELSE IF s.teams[team_id].owner_id = user_id
    THEN RaiseDetail(s, "Forbidden", "Cannot remove the team owner")
    ELSE IF get_member(s, team_id, user_id) = NoMember THEN Raise(s, "NotFound")
    ELSE Cont(crud_remove_member(s, team_id, user_id),
              <<NotifyItem(user_id, "team_removed", team_id), LogItem>>)

\* TeamService.remove_member
remove_member(s, team_id, user_id, current_user) ==
    IF ~TeamExists(s, team_id) THEN Raise(s, "NotFound")
    ELSE IF s.teams[team_id].owner_id = user_id
    THEN RaiseDetail(s, "Forbidden", "Cannot remove the team owner")
    ELSE IF Await(TRUE, _assert_manager_or_admin(s, team_id, current_user)) # "ok"
    THEN RaiseDetail(s, Await(TRUE, _assert_manager_or_admin(s, team_id, current_user)),
                     "Only team managers or admins can perform this action")
    ELSE IF get_member(s, team_id, user_id) = NoMember THEN Raise(s, "NotFound")
    ELSE Cont(crud_remove_member(s, team_id, user_id),
              <<NotifyItem(user_id, "team_removed", team_id), LogItem>>)

\* TeamService.update_member_role
update_member_role(s, team_id, user_id, role, current_user) ==
    IF ~TeamExists(s, team_id) THEN Raise(s, "NotFound")
    ELSE IF Await(FALSE, _assert_owner_or_admin(s, team_id, current_user)) # "ok"
    THEN Raise(s, Await(FALSE, _assert_owner_or_admin(s, team_id, current_user)))
    ELSE IF get_member(s, team_id, user_id) = NoMember THEN Raise(s, "NotFound")
    ELSE Cont(crud_update_member_role(s, team_id, user_id, role), <<>>)

(* ------------------------- activity service --------------------------- *)
\* ActivityService.log: adds the entry and flushes; the except clause logs the
\* failure and re-raises it.
log(s, fault) ==
    IF fault = "activity_logs"
    THEN [raised |-> TRUE, sess |-> s]
    ELSE [raised |-> FALSE, sess |-> [s EXCEPT !.logs = @ + 1]]

(* ------------------------ connection manager -------------------------- *)
\* A remove that drops the last element when x is not in the list.
ListRemoveOrPop(l, x) ==
    IF \E i \in 1..Len(l) : l[i] = x
    THEN SelectSeq(l, LAMBDA y : y # x)
    ELSE SubSeq(l, 1, Len(l) - 1)

\* list.remove(x): drops the first occurrence of x; ValueError (swallowed by
\* disconnect) when there is none.
RECURSIVE ListRemove(_, _)
ListRemove(l, x) ==
    IF l = <<>> THEN <<>>
    ELSE IF Head(l) = x THEN Tail(l)
    ELSE <<Head(l)>> \o ListRemove(Tail(l), x)

\* A connect that starts a new list for the user whatever the registry holds.
connect_new_list(registry, websocket, user_id) ==
    [u \in DOMAIN registry \cup {user_id} |->
        IF u = user_id THEN <<websocket>> ELSE registry[u]]

\* ConnectionManager.connect, after websocket.accept()
connect(registry, websocket, user_id) ==
    IF user_id \notin DOMAIN registry
    THEN [u \in DOMAIN registry \cup {user_id} |->
             IF u = user_id THEN <<websocket>> ELSE registry[u]]
    ELSE [registry EXCEPT ![user_id] = Append(@, websocket)]

\* A disconnect that leaves the user's entry in the registry when its last
\* handle is removed.
disconnect_keep_entry(registry, websocket, user_id) ==
    IF user_id \in DOMAIN registry
    THEN [registry EXCEPT ![user_id] = ListRemove(@, websocket)]
    ELSE registry

\* A disconnect that drops the user's entry with every handle in it.
disconnect_every_handle(registry, websocket, user_id) ==
    [u \in DOMAIN registry \ {user_id} |-> registry[u]]

\* ConnectionManager.disconnect
disconnect(registry, websocket, user_id) ==
    IF user_id \in DOMAIN registry
    THEN LET l == ListRemove(registry[user_id], websocket)
         IN  IF l = <<>>
             THEN [u \in DOMAIN registry \ {user_id} |-> registry[u]]
             ELSE [registry EXCEPT ![user_id] = l]
    ELSE registry

\* An is_connected that answers for the registry as a whole.
is_connected_any_user(registry, user_id) == DOMAIN registry # {}

\* ConnectionManager.is_connected
is_connected(registry, user_id) ==
    user_id \in DOMAIN registry /\ registry[user_id] # <<>>

\* websocket is an entry of the registry.
InRegistry(registry, websocket) ==
    \E u \in DOMAIN registry : \E k \in 1..Len(registry[u]) : registry[u][k] = websocket

\* A manager that leaves the handles whose send raised in the registry.
DisconnectNone(registry, dead, user_id) == registry

\* for ws in dead: self.disconnect(ws, user_id)
RECURSIVE DisconnectAll(_, _, _)
DisconnectAll(registry, dead, user_id) ==
    IF dead = <<>> THEN registry
    ELSE DisconnectAll(disconnect(registry, Head(dead), user_id), Tail(dead), user_id)

\* The loop of send_personal_message in progress: the user whose list is being
\* iterated, the message, the list iterator's position, the handles whose send
\* raised, and whether the iterated list object has left the registry (its
\* last handle was removed and the entry deleted: the object stays empty).
\* For the record: the handles of the list when the call started, and the
\* handles a send was attempted on, in order (the last one is the send the
\* call is suspended in).
NoPush == [user_id |-> NoUser, data |-> [type |-> "none", id |-> 0],
           idx |-> 0, dead |-> <<>>, detached |-> FALSE, first |-> <<>>, tried |-> <<>>]

\* The loops of broadcast in progress: the snapshot of the registry's items
\* (the users in the order of the snapshot, each with its list object), the
\* position in the snapshot, the position of the iterator of that user's list,
\* the (handle, user) pairs whose send raised, and the users whose list object
\* has left the registry.
\* For the record: the registry when the call started, and the handles a send
\* was attempted on, in order.
NoBroadcast == [users |-> <<>>, pos |-> 0, idx |-> 0, dead |-> <<>>, detached |-> {},
                first |-> <<>>, tried |-> <<>>]

\* The message of a broadcast.
BroadcastData == [type |-> "broadcast", id |-> 0]

\* for ws, user_id in all_dead: self.disconnect(ws, user_id)
RECURSIVE DisconnectPairs(_, _)
DisconnectPairs(registry, all_dead) ==
    IF all_dead = <<>> THEN registry
    ELSE DisconnectPairs(disconnect(registry, Head(all_dead).ws, Head(all_dead).user_id),
                         Tail(all_dead))

\* ConnectionManager.send_personal_message up to its loop: returns at once
\* when the user has no connections.
send_personal_message(registry, user_id, data) ==
    IF user_id \notin DOMAIN registry \/ registry[user_id] = <<>>
    THEN NoPush
    ELSE [user_id |-> user_id, data |-> data, idx |-> 1, dead |-> <<>>,
          detached |-> FALSE, first |-> registry[user_id], tried |-> <<>>]

(* ----------------------- notification service ------------------------- *)
\* A create_notification that inserts the row twice.
create_notification_twice(s, user_id, type, reference_id, fault) ==
    IF fault = "notifications"
    THEN [raised |-> TRUE, sess |-> s, id |-> 0]
    ELSE [raised |-> FALSE,
          sess |-> [s EXCEPT !.notifs = @ \o <<[user_id |-> user_id, is_read |-> FALSE],
                                                [user_id |-> user_id, is_read |-> FALSE]>>],
          id |-> Len(s.notifs) + 1]

\* CRUDNotification.create_notification: is_read defaults to false.  Of the row's
\* columns the recipient and the read flag are kept.
create_notification(s, user_id, type, reference_id, fault) ==
    IF fault = "notifications"
    THEN [raised |-> TRUE, sess |-> s, id |-> 0]
    ELSE [raised |-> FALSE,
          sess |-> [s EXCEPT !.notifs = Append(@, [user_id |-> user_id,
                                                   is_read |-> FALSE])],
          id |-> Len(s.notifs) + 1]

\* A notify_user that pushes the frame and leaves the row unwritten.
notify_user_unflushed(s, registry, user_id, type, reference_id, fault) ==
    IF fault = "notifications"
    THEN [raised |-> TRUE, sess |-> s, push |-> NoPush]
    ELSE [raised |-> FALSE, sess |-> s,
          push |-> send_personal_message(registry, user_id,
                       [type |-> "notification", id |-> Len(s.notifs) + 1])]

\* A notify_user that writes the row only for a connected user.
notify_user_when_connected(s, registry, user_id, type, reference_id, fault) ==
    LET notification == create_notification(s, user_id, type, reference_id, fault)
    IN  IF ~is_connected(registry, user_id)
        THEN [raised |-> FALSE, sess |-> s, push |-> NoPush]
        ELSE IF notification.raised
        THEN [raised |-> TRUE, sess |-> s, push |-> NoPush]
        ELSE [raised |-> FALSE, sess |-> notification.sess,
              push |-> send_personal_message(registry, user_id,
                           [type |-> "notification", id |-> notification.id])]

\* A notify_user that swallows the failure of the INSERT and pushes all the same.
notify_user_swallow(s, registry, user_id, type, reference_id, fault) ==
    LET notification == create_notification(s, user_id, type, reference_id, fault)
    IN  [raised |-> FALSE, sess |-> notification.sess,
         push |-> send_personal_message(registry, user_id,
                      [type |-> "notification", id |-> notification.id])]

\* NotificationService.notify_user up to the loop of send_personal_message.
notify_user(s, registry, user_id, type, reference_id, fault) ==
    LET notification == create_notification(s, user_id, type, reference_id, fault)
    IN  IF notification.raised
        THEN [raised |-> TRUE, sess |-> s, push |-> NoPush]
        ELSE IF is_connected(registry, user_id)
        THEN [raised |-> FALSE, sess |-> notification.sess,
              push |-> send_personal_message(registry, user_id,
                           [type |-> "notification", id |-> notification.id])]
        ELSE [raised |-> FALSE, sess |-> notification.sess, push |-> NoPush]

\* The ids of the rows of user_id among the first i, newest first.
RECURSIVE RowsOf(_, _, _, _)
RowsOf(s, user_id, unread_only, i) ==
    IF i = 0 THEN <<>>
    ELSE (IF s.notifs[i].user_id = user_id /\ (unread_only => ~s.notifs[i].is_read)
          THEN <<i>> ELSE <<>>) \o RowsOf(s, user_id, unread_only, i - 1)

\* list_by_user's default page size.
DefaultLimit == 50

\* CRUDNotification.list_by_user: one page of the user's rows and their count.
list_by_user(s, user_id, skip, limit, unread_only) ==
    LET all == RowsOf(s, user_id, unread_only, Len(s.notifs))
    IN  [items |-> SubSeq(all, skip + 1,
                          IF skip + limit < Len(all) THEN skip + limit ELSE Len(all)),
         total |-> Len(all)]

\* A mark_as_read that selects the row by its id alone.
mark_as_read_any_user(s, notification_id, user_id) ==
    IF notification_id \in 1..Len(s.notifs)
    THEN Cont([s EXCEPT !.notifs[notification_id].is_read = TRUE], <<>>)
    ELSE Raise(s, "NotFound")

\* PUT /notifications/{notification_id}/read over CRUDNotification.mark_as_read:
\* the row of that id and of the caller is set read; NotFound when the select
\* finds none.
mark_as_read(s, notification_id, user_id) ==
    IF notification_id \in 1..Len(s.notifs) /\ s.notifs[notification_id].user_id = user_id
    THEN Cont([s EXCEPT !.notifs[notification_id].is_read = TRUE], <<>>)
    ELSE Raise(s, "NotFound")

\* PUT /notifications/read-all over CRUDNotification.mark_all_read: one UPDATE
\* of the caller's unread rows.
mark_all_read(s, user_id) ==
    Cont([s EXCEPT !.notifs =
             [i \in 1..Len(s.notifs) |->
                 IF s.notifs[i].user_id = user_id /\ ~s.notifs[i].is_read
                 THEN [s.notifs[i] EXCEPT !.is_read = TRUE]
                 ELSE s.notifs[i]]], <<>>)

(* ---------------------------- auth service ---------------------------- *)
\* create_access_token / create_refresh_token: a JWT with the subject, the
\* type and a fresh jti.
create_access_token(s, user_id) ==
    [sub |-> user_id, type |-> "access", jti |-> Len(s.minted) + 1]

create_refresh_token(s, user_id) ==
    [sub |-> user_id, type |-> "refresh", jti |-> Len(s.minted) + 1]

\* hash_token: the SHA-256 digest of the token.
hash_token(token) == [sha256 |-> token]

\* decode_refresh_token: raises for a token that is not a refresh token signed
\* with the refresh key.
decode_refresh_token(token) ==
    IF token.type # "refresh"
    THEN [raised |-> TRUE, sub |-> NoUser]
    ELSE [raised |-> FALSE, sub |-> token.sub]

\* AuthService.authenticate_user: every user of the model is active.
authenticate_user(s, user, password_ok) ==
    IF user \notin UserIds \/ ~password_ok
    THEN RaiseDetail(s, "Unauthorized", "Invalid email or password")
    ELSE Cont([s EXCEPT !.hash[user] = hash_token(create_refresh_token(s, user)),
                        !.minted = Append(@, user)],
              <<LogItem>>)

\* A refresh_access_token that issues the new pair and leaves the stored hash
\* as it is.
refresh_access_token_unrotated(s, refresh_token) ==
    IF decode_refresh_token(refresh_token).raised
    THEN RaiseDetail(s, "InvalidToken", "Invalid or expired refresh token")
    ELSE LET user_id == decode_refresh_token(refresh_token).sub
         IN  IF user_id \notin UserIds
             THEN RaiseDetail(s, "Unauthorized", "User not found or inactive")
             ELSE IF s.hash[user_id] # hash_token(refresh_token)
             THEN RaiseDetail(s, "InvalidToken", "Refresh token has been revoked")
             ELSE Cont([s EXCEPT !.minted = Append(@, user_id)], <<>>)

\* AuthService.refresh_access_token
refresh_access_token(s, refresh_token) ==
    IF decode_refresh_token(refresh_token).raised
    THEN RaiseDetail(s, "InvalidToken", "Invalid or expired refresh token")
    ELSE LET user_id == decode_refresh_token(refresh_token).sub
         IN  IF user_id \notin UserIds
             THEN RaiseDetail(s, "Unauthorized", "User not found or inactive")
             ELSE IF s.hash[user_id] # hash_token(refresh_token)
             THEN RaiseDetail(s, "InvalidToken", "Refresh token has been revoked")
             ELSE Cont([s EXCEPT !.hash[user_id] =
                                    hash_token(create_refresh_token(s, user_id)),
                                 !.minted = Append(@, user_id)],
                       <<>>)

\* AuthService.logout
logout(s, user) == Cont([s EXCEPT !.hash[user] = NoHash], <<LogItem>>)

\* The tokens that have been handed out.
Minted(s) ==
    {[sub |-> s.minted[k], type |-> type, jti |-> k] :
        k \in 1..Len(s.minted), type \in {"access", "refresh"}}

(* ----------------------------- task lists ----------------------------- *)
\* CRUDTeam.get_user_team_ids: the teams the user owns or holds a row in.
get_user_team_ids(s, user_id) ==
    {t \in 1..Len(s.teams) :
        /\ s.teams[t].live
        /\ \/ s.teams[t].owner_id = user_id
           \/ \E m \in s.members : m.team_id = t /\ m.user_id = user_id}

\* TaskFilter's default page size.
DefaultSize == 20

\* TaskFilter with its defaults: no assignee filter, no team filter, tasks
\* that are not archived, the first page.
DefaultFilter ==
    [assigned_to_id |-> NoUser, team_id |-> NoTeam, is_archived |-> FALSE,
     page |-> 1, size |-> DefaultSize]

\* The WHERE clause of list_with_filters on one task: the visibility filter
\* (when owner_id is given), then the filters that are set.
Selected(task, filters, owner_id, team_ids) ==
    /\ owner_id # NoUser =>
          \/ task.owner_id = owner_id
          \/ task.assigned_to_id = owner_id
          \/ team_ids # {} /\ task.team_id \in team_ids
    /\ task.is_archived = filters.is_archived
    /\ filters.assigned_to_id # NoUser => task.assigned_to_id = filters.assigned_to_id
    /\ filters.team_id # NoTeam => task.team_id = filters.team_id

\* The ids of the selected tasks among the first i, newest first.
RECURSIVE SelectedDesc(_, _, _, _, _)
SelectedDesc(s, filters, owner_id, team_ids, i) ==
    IF i = 0 THEN <<>>
    ELSE (IF Selected(s.tasks[i], filters, owner_id, team_ids) THEN <<i>> ELSE <<>>)
         \o SelectedDesc(s, filters, owner_id, team_ids, i - 1)

\* offset(skip).limit(size) on a result list.
Page(all, skip, size) ==
    SubSeq(all, skip + 1, IF skip + size < Len(all) THEN skip + size ELSE Len(all))

\* A list_with_filters whose count query leaves the visibility filter out.
list_with_filters_unscoped_total(s, filters, owner_id, team_ids) ==
    [items |-> Page(SelectedDesc(s, filters, owner_id, team_ids, Len(s.tasks)),
                    (filters.page - 1) * filters.size, filters.size),
     total |-> Len(SelectedDesc(s, filters, NoUser, {}, Len(s.tasks)))]

\* CRUDTask.list_with_filters: (tasks, total).
list_with_filters(s, filters, owner_id, team_ids) ==
    LET all == SelectedDesc(s, filters, owner_id, team_ids, Len(s.tasks))
    IN  [items |-> Page(all, (filters.page - 1) * filters.size, filters.size),
         total |-> Len(all)]

\* TaskService.list_tasks
list_tasks(s, filters, current_user) ==
    IF UserRole(current_user) = "admin"
    THEN list_with_filters(s, filters, NoUser, {})
    ELSE list_with_filters(s, filters, current_user, get_user_team_ids(s, current_user))

\* The ids of the tasks of the team among the first i, newest first.
RECURSIVE TeamTasksDesc(_, _, _, _)
TeamTasksDesc(s, team_id, include_archived, i) ==
    IF i = 0 THEN <<>>
    ELSE (IF s.tasks[i].team_id = team_id /\ (~include_archived => ~s.tasks[i].is_archived)
          THEN <<i>> ELSE <<>>)
         \o TeamTasksDesc(s, team_id, include_archived, i - 1)

\* CRUDTask.list_by_team: (tasks, total).
list_by_team(s, team_id, skip, limit, include_archived) ==
    LET all == TeamTasksDesc(s, team_id, include_archived, Len(s.tasks))
    IN  [items |-> Page(all, skip, limit), total |-> Len(all)]

\* GET /tasks/team/{team_id}: the route calls list_by_team for every caller.
list_team_tasks(s, team_id, current_user, page, size, include_archived) ==
    list_by_team(s, team_id, (page - 1) * size, size, include_archived)

(* ------------------------------ state --------------------------------- *)
VARIABLES
    db,       \* the committed database
    conns,    \* ConnectionManager._connections: user id -> list of channels
    ws,       \* the websockets ever opened: owner, endpoint position, health
    frames,   \* the frames delivered on each websocket, in order
    req,      \* the request handler in flight, with its session
    last,     \* the last request completed
    bcast     \* the broadcast call in flight

vars == <<db, conns, ws, frames, req, last, bcast>>

\* ConnectionManager.__init__: no entries.
EmptyRegistry == [u \in {} |-> <<>>]

NoReq == [op |-> "none"]

NoLast == [op |-> "none", actor |-> NoUser, id |-> 0, target |-> NoUser,
           fault |-> "none", out |-> "none", sends |-> 0, notified |-> <<>>, n0 |-> 0]

Init ==
    /\ db = EmptyDb
    /\ conns = EmptyRegistry
    /\ ws = <<>>
    /\ frames = <<>>
    /\ req = NoReq
    /\ last = NoLast
    /\ bcast = NoBroadcast

(* -------------------------- running a handler ------------------------- *)
\* Runs the handler on from where it stands: each activity-log write and each
\* notify_user call in code order, up to the first exception, the first push
\* loop (a suspension) or the end.
RECURSIVE Run(_, _)
Run(r, registry) ==
    IF r.exc # "none" \/ r.todo = <<>> THEN r
    ELSE LET it == Head(r.todo)
             r1 == [r EXCEPT !.todo = Tail(@)]
         IN  IF it.k = "log"
             THEN LET l == log(r.sess, r.fault)
                  IN  IF l.raised THEN [r1 EXCEPT !.exc = "DbError"]
                      ELSE Run([r1 EXCEPT !.sess = l.sess], registry)
             ELSE LET n == notify_user(r.sess, registry, it.user_id, it.type, it.ref, r.fault)
                      r2 == [r1 EXCEPT !.notified = Append(@, it.user_id)]
                  IN  IF n.raised THEN [r2 EXCEPT !.exc = "DbError"]
                      ELSE IF n.push # NoPush
                      THEN [r2 EXCEPT !.sess = n.sess, !.push = n.push]
                      ELSE Run([r2 EXCEPT !.sess = n.sess], registry)

\* get_db: commit when the handler returned, roll back when it raised.
get_db(committed, r) == IF r.exc = "none" THEN r.sess ELSE committed

Summary(r) ==
    [op |-> r.op, actor |-> r.actor, id |-> r.id, target |-> r.target,
     fault |-> r.fault, out |-> IF r.exc = "none" THEN "ok" ELSE r.exc,
     sends |-> r.sends, notified |-> r.notified, n0 |-> r.n0]

\* The handler either suspends in a push loop or ends the request.
Settle(r) ==
    IF r.push # NoPush
    THEN /\ req' = r
         /\ UNCHANGED <<db, last>>
    ELSE /\ req' = NoReq
         /\ db' = get_db(db, r)
         /\ last' = Summary(r)

CountKind(todo, k) == Cardinality({i \in 1..Len(todo) : todo[i].k = k})

\* The tables and the frame histories stay within the bounds of the model.
WithinBounds(h) ==
    \/ h.exc # "none"
    \/ /\ Len(h.sess.tasks) <= MaxTasks
       /\ Len(h.sess.teams) <= MaxTeams
       /\ h.sess.logs + CountKind(h.todo, "log") <= MaxLogs
       /\ Len(h.sess.notifs) + CountKind(h.todo, "notify") <= MaxNotifs
       /\ \A c \in 1..Len(frames) :
             Len(frames[c]) + CountKind(h.todo, "notify") <= MaxFrames

\* A request arrives and its handler runs to its first suspension.
Begin(op, actor, id, target, fault, h) ==
    /\ req = NoReq
    /\ WithinBounds(h)
    /\ Settle(Run([op |-> op, actor |-> actor, id |-> id, target |-> target,
                   fault |-> fault, exc |-> h.exc, sess |-> h.sess, todo |-> h.todo,
                   push |-> NoPush, sends |-> 0, notified |-> <<>>,
                   n0 |-> Len(db.notifs)], conns))
    /\ UNCHANGED <<conns, ws, frames, bcast>>

(* -------------------------- request actions --------------------------- *)
\* POST /tasks/
CreateTask(actor, assignee, team, fault) ==
    Begin("create_task", actor, Len(db.tasks) + 1, assignee, fault,
          create_task(db, [assigned_to_id |-> assignee, team_id |-> team], actor))

\* GET /tasks/{task_id}
GetTask(actor, task_id) ==
    Begin("get_task", actor, task_id, NoUser, "none", get_task(db, task_id, actor))

\* PUT /tasks/{task_id}
UpdateTask(actor, task_id, assignee, team, fault) ==
    Begin("update_task", actor, task_id, assignee, fault,
          update_task(db, task_id, [assigned_to_id |-> assignee, team_id |-> team], actor))

\* DELETE /tasks/{task_id}
DeleteTask(actor, task_id, fault) ==
    Begin("delete_task", actor, task_id, NoUser, fault, delete_task(db, task_id, actor))

\* POST /tasks/{task_id}/assign
AssignTask(actor, task_id, assignee, fault) ==
    Begin("assign_task", actor, task_id, assignee, fault,
          assign_task(db, task_id, assignee, actor))

\* GET /tasks/ with the default filters: the handler reads and returns.
ListTasks(actor) ==
    Begin("list_tasks", actor, 0, NoUser, "none", Cont(db, <<>>))

\* GET /notifications/: the handler reads and returns.
ListNotifications(actor) ==
    Begin("list_notifications", actor, 0, NoUser, "none", Cont(db, <<>>))

\* PUT /notifications/{notification_id}/read
MarkAsRead(actor, notification_id) ==
    Begin("mark_as_read", actor, notification_id, NoUser, "none",
          mark_as_read(db, notification_id, actor))

\* PUT /notifications/read-all
MarkAllRead(actor) ==
    Begin("mark_all_read", actor, 0, NoUser, "none", mark_all_read(db, actor))

\* POST /auth/login
Login(user, password_ok, fault) ==
    /\ Len(db.minted) < MaxTokens
    /\ Begin("login", user, Len(db.minted) + 1, NoUser, fault,
             authenticate_user(db, user, password_ok))

\* POST /auth/refresh with a token that was handed out
Refresh(refresh_token) ==
    /\ refresh_access_token(db, refresh_token).exc = "none" => Len(db.minted) < MaxTokens
    /\ Begin("refresh", NoUser, refresh_token.jti, refresh_token.sub, "none",
             refresh_access_token(db, refresh_token))

\* POST /auth/logout
Logout(user, fault) ==
    Begin("logout", user, 0, NoUser, fault, logout(db, user))

\* GET /tasks/team/{team_id} with the default page: the handler reads and returns.
ListTeamTasks(actor, team_id) ==
    Begin("list_team_tasks", actor, team_id, NoUser, "none", Cont(db, <<>>))

\* POST /teams/
CreateTeam(actor, fault) ==
    Begin("create_team", actor, Len(db.teams) + 1, NoUser, fault,
          create_team(db, "old", actor))

\* GET /teams/{team_id}
GetTeam(actor, team_id) ==
    Begin("get_team", actor, team_id, NoUser, "none", get_team(db, team_id, actor))

\* PUT /teams/{team_id}
UpdateTeam(actor, team_id, fault) ==
    Begin("update_team", actor, team_id, NoUser, fault,
          update_team(db, team_id, "new", actor))

\* DELETE /teams/{team_id}
DeleteTeam(actor, team_id, fault) ==
    Begin("delete_team", actor, team_id, NoUser, fault, delete_team(db, team_id, actor))

\* POST /teams/{team_id}/members
AddMember(actor, team_id, user_id, role, fault) ==
    Begin("add_member", actor, team_id, user_id, fault,
          add_member(db, team_id, [user_id |-> user_id, role |-> role], actor))

\* DELETE /teams/{team_id}/members/{user_id}
RemoveMember(actor, team_id, user_id, fault) ==
    Begin("remove_member", actor, team_id, user_id, fault,
          remove_member(db, team_id, user_id, actor))

\* PATCH /teams/{team_id}/members/{user_id}
UpdateMemberRole(actor, team_id, user_id, role) ==
    Begin("update_member_role", actor, team_id, user_id, "none",
          update_member_role(db, team_id, user_id, role, actor))

(* ------------------------ the push loop, stepwise --------------------- *)
\* A list that a push loop iterates and that leaves the registry stays empty.
Detach(registry) ==
    IF req # NoReq /\ ~req.push.detached /\ req.push.user_id \notin DOMAIN registry
    THEN [req EXCEPT !.push.detached = TRUE]
    ELSE req

\* The same for the lists in the snapshot of a broadcast.
DetachBroadcast(registry) ==
    [bcast EXCEPT !.detached =
        @ \cup {bcast.users[k] : k \in {j \in 1..Len(bcast.users) :
                                            bcast.users[j] \notin DOMAIN registry}}]

\* websocket.send_text raises once the peer is gone or the endpoint has ended.
SendOk(c) == ws[c].pc # "closed" /\ ~ws[c].broken

\* The list object the loop of send_personal_message iterates.
Connections(p) == IF p.detached THEN <<>> ELSE conns[p.user_id]

\* One iteration of `for ws in connections`: the iterator yields the element
\* at its position of the live list, and the send delivers or raises.
SendNext ==
    /\ req # NoReq
    /\ req.push.idx <= Len(Connections(req.push))
    /\ LET c == Connections(req.push)[req.push.idx]
       IN  IF SendOk(c)
           THEN /\ frames' = [frames EXCEPT ![c] = Append(@, req.push.data)]
                /\ req' = [req EXCEPT !.push.idx = @ + 1, !.sends = @ + 1,
                                      !.push.tried = Append(@, c)]
           ELSE /\ frames' = frames
                /\ req' = [req EXCEPT !.push.idx = @ + 1, !.sends = @ + 1,
                                      !.push.tried = Append(@, c),
                                      !.push.dead = Append(@, c)]
    /\ UNCHANGED <<db, conns, ws, last, bcast>>

\* The iterator is exhausted: the dead handles are disconnected,
\* send_personal_message and notify_user return, and the handler runs on.
SendDone ==
    /\ req # NoReq
    /\ req.push.idx > Len(Connections(req.push))
    /\ conns' = DisconnectAll(conns, req.push.dead, req.push.user_id)
    /\ Settle(Run([req EXCEPT !.push = NoPush],
                  DisconnectAll(conns, req.push.dead, req.push.user_id)))
    /\ bcast' = DetachBroadcast(DisconnectAll(conns, req.push.dead, req.push.user_id))
    /\ UNCHANGED <<ws, frames>>

(* ------------------------- broadcast, stepwise ------------------------ *)
\* The orders in which a snapshot can hold the users of the registry: the
\* dict keeps insertion order, which the registry of the model does not record.
Orders(S) ==
    {q \in [1..Cardinality(S) -> S] : \A x \in S : \E i \in 1..Cardinality(S) : q[i] = x}

\* The list object the snapshot holds at pos.
ListOf(b, pos) == IF b.users[pos] \in b.detached THEN <<>> ELSE conns[b.users[pos]]

\* The next element the two nested iterators yield, from (pos, idx) on: an
\* exhausted list iterator passes on to the next item of the snapshot.
RECURSIVE Advance(_, _, _)
Advance(b, pos, idx) ==
    IF pos > Len(b.users) THEN [pos |-> pos, idx |-> 1]
    ELSE IF idx <= Len(ListOf(b, pos)) THEN [pos |-> pos, idx |-> idx]
    ELSE Advance(b, pos + 1, 1)

\* ConnectionManager.broadcast is called: list(self._connections.items()).
\* With an empty registry the call returns at once and changes nothing.
BroadcastBegin ==
    /\ bcast = NoBroadcast
    /\ DOMAIN conns # {}
    /\ \A c \in 1..Len(frames) : Len(frames[c]) < MaxFrames
    /\ \E order \in Orders(DOMAIN conns) :
          bcast' = [users |-> order, pos |-> 1, idx |-> 1, dead |-> <<>>, detached |-> {},
                    first |-> conns, tried |-> <<>>]
    /\ UNCHANGED <<db, conns, ws, frames, req, last>>

\* One iteration of `for ws in connections`, in the user the iterators have
\* come to: the send delivers or raises.
BroadcastNext ==
    /\ bcast # NoBroadcast
    /\ LET t == Advance(bcast, bcast.pos, bcast.idx)
       IN  /\ t.pos <= Len(bcast.users)
           /\ LET c == ListOf(bcast, t.pos)[t.idx]
                  b == [bcast EXCEPT !.pos = t.pos, !.idx = t.idx + 1,
                                     !.tried = Append(@, c)]
              IN  IF SendOk(c)
                  THEN /\ frames' = [frames EXCEPT ![c] = Append(@, BroadcastData)]
                       /\ bcast' = b
                  ELSE /\ frames' = frames
                       /\ bcast' = [b EXCEPT !.dead =
                                       Append(@, [ws |-> c, user_id |-> bcast.users[t.pos]])]
    /\ UNCHANGED <<db, conns, ws, req, last>>

\* The iterators are exhausted: the dead handles are disconnected and
\* broadcast returns.
BroadcastDone ==
    /\ bcast # NoBroadcast
    /\ Advance(bcast, bcast.pos, bcast.idx).pos > Len(bcast.users)
    /\ conns' = DisconnectPairs(conns, bcast.dead)
    /\ req' = Detach(DisconnectPairs(conns, bcast.dead))
    /\ bcast' = NoBroadcast
    /\ UNCHANGED <<db, ws, frames, last>>

(* ------------------------- websocket endpoint ------------------------- *)
\* The token query parameter: absent, one that decode_access_token refuses
\* (bad signature, expired, not an access token), or a valid access token,
\* which stands here for its subject.
NoToken == "none"
BadToken == "bad"
Tokens == {NoToken, BadToken, "alice", "bob"}

\* decode_access_token: the payload, or JWTError.
decode_access_token(token) ==
    IF token = BadToken THEN [raised |-> TRUE, sub |-> NoUser]
    ELSE [raised |-> FALSE, sub |-> token]

\* Checks that let the token of another user through.
RejectionNoMismatch(token, user_id) ==
    IF token = NoToken THEN "missing"
    ELSE IF decode_access_token(token).raised THEN "invalid"
    ELSE "none"

\* The checks of websocket_endpoint before it accepts, in code order: the
\* cause for which the connection is refused, or "none".
Rejection(token, user_id) ==
    IF token = NoToken THEN "missing"
    ELSE IF decode_access_token(token).raised THEN "invalid"
    ELSE IF decode_access_token(token).sub # user_id THEN "mismatch"
    ELSE "none"

\* The close codes of the three refusals, and no code.
MissingTokenCode == 4001
InvalidTokenCode == 4001
MismatchCode == 4003
NoCode == 0

\* websocket.close(code=...) of each refusal.
CloseCode(cause) ==
    CASE cause = "missing" -> MissingTokenCode
      [] cause = "invalid" -> InvalidTokenCode
      [] cause = "mismatch" -> MismatchCode
      [] OTHER -> NoCode

\* The time _heartbeat sleeps before each ping.
HEARTBEAT_INTERVAL == 30

\* A websocket whose endpoint has ended keeps no state.
Closed == [user_id |-> NoUser, pc |-> "closed", broken |-> FALSE, hb |-> "none",
           token |-> NoToken, code |-> NoCode, slept |-> 0]

\* The frames of the endpoint itself.
ConnectedFrame(user_id) == [type |-> "connected", id |-> 0, user_id |-> user_id]
PingFrame == [type |-> "ping", id |-> 0]

\* websocket_endpoint refuses the connection: it closes the websocket with
\* the code of the cause and returns.
WsReject(user_id, token) ==
    /\ Len(ws) < MaxChans
    /\ Rejection(token, user_id) # "none"
    /\ ws' = Append(ws, [user_id |-> user_id, pc |-> "rejected", broken |-> FALSE,
                         hb |-> "none", token |-> token,
                         code |-> CloseCode(Rejection(token, user_id)), slept |-> 0])
    /\ frames' = Append(frames, <<>>)
    /\ UNCHANGED <<db, conns, req, last, bcast>>

\* An endpoint that registers the channel and starts the heartbeat without
\* sending the acknowledgement.
WsConnectNoAck(user_id, token) ==
    /\ Len(ws) < MaxChans
    /\ ws' = Append(ws, [user_id |-> user_id, pc |-> "loop", broken |-> FALSE,
                         hb |-> "sleep", token |-> token, code |-> NoCode, slept |-> 0])
    /\ frames' = Append(frames, <<>>)
    /\ conns' = connect(conns, Len(ws) + 1, user_id)
    /\ UNCHANGED <<db, req, last, bcast>>

\* websocket_endpoint past its checks: ws_manager.connect registers the
\* channel, the connected acknowledgement is sent on it, and the heartbeat task
\* is created and sleeps.  These are one step here: no push falls between
\* them, and an acknowledgement that cannot be sent is the WsClose that
\* follows.
WsConnect(user_id, token) ==
    /\ Len(ws) < MaxChans
    /\ ws' = Append(ws, [user_id |-> user_id, pc |-> "loop", broken |-> FALSE,
                         hb |-> "sleep", token |-> token, code |-> NoCode, slept |-> 0])
    /\ frames' = Append(frames, <<ConnectedFrame(user_id)>>)
    /\ conns' = connect(conns, Len(ws) + 1, user_id)
    /\ UNCHANGED <<db, req, last, bcast>>

\* websocket_endpoint, from the arrival of the connection.
WsOpen(user_id, token) ==
    \/ WsReject(user_id, token)
    \/ Rejection(token, user_id) = "none" /\ WsConnect(user_id, token)

\* A heartbeat that puts its channel back into the registry when it finds it
\* missing.
HeartbeatSendRegisters(c) ==
    /\ c \in 1..Len(ws)
    /\ ws[c].pc = "loop"
    /\ ws[c].hb = "sleep"
    /\ Len(frames[c]) < MaxFrames
    /\ IF SendOk(c)
       THEN /\ frames' = [frames EXCEPT ![c] = Append(@, PingFrame)]
            /\ ws' = [ws EXCEPT ![c].hb = "send", ![c].slept = @ + HEARTBEAT_INTERVAL]
       ELSE /\ frames' = frames
            /\ ws' = [ws EXCEPT ![c].hb = "ended", ![c].slept = @ + HEARTBEAT_INTERVAL]
    /\ conns' = IF InRegistry(conns, c) THEN conns ELSE connect(conns, c, ws[c].user_id)
    /\ UNCHANGED <<db, req, last, bcast>>

\* A heartbeat that sends the ping twice.
HeartbeatSendTwice(c) ==
    /\ c \in 1..Len(ws)
    /\ ws[c].pc = "loop"
    /\ ws[c].hb = "sleep"
    /\ Len(frames[c]) < MaxFrames
    /\ IF SendOk(c)
       THEN /\ frames' = [frames EXCEPT ![c] = @ \o <<PingFrame, PingFrame>>]
            /\ ws' = [ws EXCEPT ![c].hb = "send", ![c].slept = @ + HEARTBEAT_INTERVAL]
       ELSE /\ frames' = frames
            /\ ws' = [ws EXCEPT ![c].hb = "ended", ![c].slept = @ + HEARTBEAT_INTERVAL]
    /\ UNCHANGED <<db, conns, req, last, bcast>>

\* _heartbeat: the sleep of one interval is over and the ping is sent.  A
\* send that raises ends the task.  The channel records the time its
\* heartbeat has slept.
HeartbeatSend(c) ==
    /\ c \in 1..Len(ws)
    /\ ws[c].pc = "loop"
    /\ ws[c].hb = "sleep"
    /\ Len(frames[c]) < MaxFrames
    /\ IF SendOk(c)
       THEN /\ frames' = [frames EXCEPT ![c] = Append(@, PingFrame)]
            /\ ws' = [ws EXCEPT ![c].hb = "send", ![c].slept = @ + HEARTBEAT_INTERVAL]
       ELSE /\ frames' = frames
            /\ ws' = [ws EXCEPT ![c].hb = "ended", ![c].slept = @ + HEARTBEAT_INTERVAL]
    /\ UNCHANGED <<db, conns, req, last, bcast>>

\* _heartbeat: the send of the ping returns and the task sleeps again.
HeartbeatSent(c) ==
    /\ c \in 1..Len(ws)
    /\ ws[c].pc = "loop"
    /\ ws[c].hb = "send"
    /\ ws' = [ws EXCEPT ![c].hb = "sleep"]
    /\ UNCHANGED <<db, conns, frames, req, last, bcast>>

\* The peer goes away: every later send on the channel raises.
ChannelBreak(c) ==
    /\ c \in 1..Len(ws)
    /\ ws[c].pc = "loop"
    /\ ~ws[c].broken
    /\ ws' = [ws EXCEPT ![c].broken = TRUE]
    /\ UNCHANGED <<db, conns, frames, req, last, bcast>>

\* websocket_endpoint: receive_json raises WebSocketDisconnect (the client
\* closed, or the peer is gone); the heartbeat task is cancelled and the
\* finally clause disconnects.
WsClose(c) ==
    /\ c \in 1..Len(ws)
    /\ ws[c].pc = "loop"
    /\ ws' = [ws EXCEPT ![c] = Closed]
    /\ conns' = disconnect(conns, c, ws[c].user_id)
    /\ req' = Detach(disconnect(conns, c, ws[c].user_id))
    /\ bcast' = DetachBroadcast(disconnect(conns, c, ws[c].user_id))
    /\ frames' = [frames EXCEPT ![c] = <<>>]
    /\ UNCHANGED <<db, last>>

(* --------------------------- specifications --------------------------- *)
\* The push channel: websocket endpoints and the requests that notify.
Next ==
    \/ \E u \in {"alice", "bob"} : WsConnect(u, u)
    \/ \E c \in 1..MaxChans : ChannelBreak(c)
    \/ \E c \in 1..MaxChans : WsClose(c)
    \/ SendNext
    \/ SendDone
    \/ \E fault \in Faults : CreateTask("alice", "bob", NoTeam, fault)
    \/ \E t \in 1..MaxTasks, fault \in Faults : AssignTask("alice", t, "bob", fault)

Spec == Init /\ [][Next]_vars

\* The connection manager under every caller: the endpoints, a request that
\* notifies, and broadcast.
NextManager ==
    \/ \E u \in {"alice", "bob"} : WsConnect(u, u)
    \/ \E c \in 1..MaxChans : ChannelBreak(c)
    \/ \E c \in 1..MaxChans : WsClose(c)
    \/ SendNext
    \/ SendDone
    \/ CreateTask("alice", "bob", NoTeam, "none")
    \/ BroadcastBegin
    \/ BroadcastNext
    \/ BroadcastDone

SpecManager == Init /\ [][NextManager]_vars

\* The websocket endpoint of /ws/bob from the arrival of a connection, with
\* its heartbeat, and a request that notifies bob.
NextEndpoint ==
    \/ \E token \in Tokens : WsOpen("bob", token)
    \/ \E c \in 1..MaxChans : HeartbeatSend(c)
    \/ \E c \in 1..MaxChans : HeartbeatSent(c)
    \/ \E c \in 1..MaxChans : ChannelBreak(c)
    \/ \E c \in 1..MaxChans : WsClose(c)
    \/ SendNext
    \/ SendDone
    \/ CreateTask("alice", "bob", NoTeam, "none")

SpecEndpoint == Init /\ [][NextEndpoint]_vars

\* The event loop runs every task whose sleep or send is over: each
\* heartbeat and the handler in its push loop.  A peer that closes, a
\* connection and a request arrive or not.
SpecEndpointLive ==
    /\ SpecEndpoint
    /\ \A c \in 1..MaxChans : WF_vars(HeartbeatSend(c)) /\ WF_vars(HeartbeatSent(c))
    /\ WF_vars(SendNext)
    /\ WF_vars(SendDone)

\* The task and team services, no websocket open: every request is one step.
\* An INSERT fails in the requests that create a task or add a member.
NextAuthz ==
    \/ \E actor \in UserIds, assignee \in {NoUser, "bob"}, team \in 0..MaxTeams,
          fault \in {"none", "activity_logs"} :
          CreateTask(actor, assignee, team, fault)
    \/ \E actor \in UserIds, t \in 1..MaxTasks : GetTask(actor, t)
    \/ \E actor \in UserIds : ListTasks(actor)
    \/ \E actor \in UserIds, t \in 1..MaxTasks, assignee \in {Unset, "bob"},
          team \in {UnsetTeam} \cup 1..MaxTeams :
          UpdateTask(actor, t, assignee, team, "none")
    \/ \E actor \in UserIds, t \in 1..MaxTasks : DeleteTask(actor, t, "none")
    \/ \E actor \in UserIds, t \in 1..MaxTasks : AssignTask(actor, t, "bob", "none")
    \/ \E actor \in UserIds : CreateTeam(actor, "none")
    \/ \E actor \in UserIds, team \in 1..MaxTeams : GetTeam(actor, team)
    \/ \E actor \in UserIds, team \in 1..MaxTeams : UpdateTeam(actor, team, "none")
    \/ \E actor \in UserIds, team \in 1..MaxTeams : DeleteTeam(actor, team, "none")
    \/ \E actor \in UserIds, team \in 1..MaxTeams, u \in {"alice", "bob", GhostUser},
          role \in TeamMemberRole :
          AddMember(actor, team, u, role, "none")
    \/ \E actor \in UserIds, team \in 1..MaxTeams, u \in UserIds :
          RemoveMember(actor, team, u, "none")
    \/ \E actor \in UserIds, team \in 1..MaxTeams, u \in UserIds :
          UpdateMemberRole(actor, team, u, "manager")

SpecAuthz == Init /\ [][NextAuthz]_vars

\* A team of alice with its tasks, the memberships of bob and of the admin
\* as alice grants, changes and withdraws them, and the reads and updates of
\* the two between these requests.
NextFresh ==
    \/ CreateTeam("alice", "none")
    \/ \E assignee \in {NoUser, "bob"}, team \in 1..MaxTeams :
          CreateTask("alice", assignee, team, "none")
    \/ \E team \in 1..MaxTeams, u \in {"bob", "root"}, role \in TeamMemberRole :
          AddMember("alice", team, u, role, "none")
    \/ \E team \in 1..MaxTeams, u \in {"bob", "root"} :
          RemoveMember("alice", team, u, "none")
    \/ \E team \in 1..MaxTeams : UpdateMemberRole("alice", team, "bob", "member")
    \/ \E actor \in {"bob", "root"}, t \in 1..MaxTasks : GetTask(actor, t)
    \/ \E actor \in {"bob", "root"}, t \in 1..MaxTasks :
          UpdateTask(actor, t, Unset, UnsetTeam, "none")

SpecFresh == Init /\ [][NextFresh]_vars

\* The notification routes, with the requests that leave rows for bob and
\* alice: alice's task for bob, and the admin's update of it.
NextNotif ==
    \/ \E fault \in Faults : CreateTask("alice", "bob", NoTeam, fault)
    \/ \E t \in 1..MaxTasks, assignee \in {Unset, NoUser, "bob"} :
          UpdateTask("root", t, assignee, UnsetTeam, "none")
    \/ \E actor \in UserIds : ListNotifications(actor)
    \/ \E actor \in UserIds, n \in 1..(MaxNotifs + 1) : MarkAsRead(actor, n)
    \/ \E actor \in UserIds : MarkAllRead(actor)

SpecNotif == Init /\ [][NextNotif]_vars

\* The authentication routes of alice and bob; the activity-log INSERT of a
\* login or a logout fails or not.
NextAuth ==
    \/ \E user \in {"alice", "bob"}, password_ok \in BOOLEAN,
          fault \in {"none", "activity_logs"} : Login(user, password_ok, fault)
    \/ \E refresh_token \in Minted(db) : Refresh(refresh_token)
    \/ \E user \in {"alice", "bob"}, fault \in {"none", "activity_logs"} :
          Logout(user, fault)

SpecAuth == Init /\ [][NextAuth]_vars

\* The task read routes for every user, over alice's team, her tasks and
\* the memberships she grants and withdraws.
NextRead ==
    \/ CreateTeam("alice", "none")
    \/ \E assignee \in {NoUser, "bob"}, team \in 0..MaxTeams :
          CreateTask("alice", assignee, team, "none")
    \/ \E team \in 1..MaxTeams, role \in TeamMemberRole :
          AddMember("alice", team, "bob", role, "none")
    \/ \E team \in 1..MaxTeams : RemoveMember("alice", team, "bob", "none")
    \/ \E actor \in UserIds, t \in 1..MaxTasks : GetTask(actor, t)
    \/ \E actor \in UserIds : ListTasks(actor)
    \/ \E actor \in UserIds, team \in 1..MaxTeams : ListTeamTasks(actor, team)

SpecRead == Init /\ [][NextRead]_vars

\* The membership requests of alice on her team, which notify bob, with
\* bob's websocket endpoints; an INSERT fails in a request or not.
NextInvite ==
    \/ WsConnect("bob", "bob")
    \/ \E c \in 1..MaxChans : ChannelBreak(c)
    \/ \E c \in 1..MaxChans : WsClose(c)
    \/ SendNext
    \/ SendDone
    \/ CreateTeam("alice", "none")
    \/ \E team \in 1..MaxTeams, role \in TeamMemberRole, fault \in Faults :
          AddMember("alice", team, "bob", role, fault)
    \/ \E team \in 1..MaxTeams, fault \in Faults : RemoveMember("alice", team, "bob", fault)

SpecInvite == Init /\ [][NextInvite]_vars

(* ------------------------- notification claims ------------------------ *)
\* The session s holds, after the n0 rows it started with, one unread row per
\* notify_user call, in call order, each for the call's target.
RowsAdded(s, n0, notified) ==
    /\ Len(s.notifs) = n0 + Len(notified)
    /\ \A i \in 1..Len(notified) :
          s.notifs[n0 + i] = [user_id |-> notified[i], is_read |-> FALSE]

\* C1: every notify_user call that returns has added exactly one row for its
\* target, unread, to the session: in a handler suspended in a push (the target
\* was connected) and in a handler that ran to its end and committed.
C1_OneRowPerNotify ==
    /\ req # NoReq => RowsAdded(req.sess, req.n0, req.notified)
    /\ last.out = "ok" => RowsAdded(db, last.n0, last.notified)

\* A committed request whose one notification was also pushed, after an
\* earlier notification row.
C1_Witness ==
    /\ last.out = "ok"
    /\ last.notified = <<"bob">>
    /\ last.sends > 0
    /\ last.n0 = 1

\* C2: every notification frame a step delivers on a channel carries the id of
\* a row that is in the sending handler's session, for the channel's user.
C2_RowBeforePush ==
    [][\A c \in 1..Len(frames) :
          (/\ Len(frames'[c]) > Len(frames[c])
           /\ frames'[c][Len(frames'[c])].type = "notification")
          => /\ req # NoReq
             /\ frames'[c][Len(frames'[c])].id \in 1..Len(req.sess.notifs)
             /\ req.sess.notifs[frames'[c][Len(frames'[c])].id].user_id = ws[c].user_id]_vars

\* A push loop in progress that has delivered its frame on a channel.
C2_Witness ==
    /\ req # NoReq
    /\ \E c \in 1..Len(frames) : \E k \in 1..Len(frames[c]) :
          frames[c][k] = [type |-> "notification", id |-> req.push.data.id]

\* C3: a request that notifies users none of whom has a registered handle
\* attempts no send and delivers no frame, and once it has committed each new
\* row is on the first page of its target's list query, unread.
C3_NoHandleNoSend ==
    [][(/\ req = NoReq
        /\ last' # last
        /\ last'.notified # <<>>
        /\ \A i \in 1..Len(last'.notified) : ~is_connected(conns, last'.notified[i]))
       => /\ last'.sends = 0
          /\ frames' = frames
          /\ last'.out = "ok" =>
                \A i \in 1..Len(last'.notified) :
                   LET page == list_by_user(db', last'.notified[i], 0, DefaultLimit, FALSE)
                   IN  /\ \E k \in 1..Len(page.items) : page.items[k] = last'.n0 + i
                       /\ ~db'.notifs[last'.n0 + i].is_read]_vars

\* bob is notified while the only open channels are alice's: nothing is sent,
\* and the row is committed.
C3_Witness ==
    /\ last.out = "ok"
    /\ last.notified = <<"bob">>
    /\ last.sends = 0
    /\ ws # <<>>
    /\ \A c \in 1..Len(ws) : ws[c].user_id = "alice" /\ ws[c].pc = "loop"
    /\ \A c \in 1..Len(frames) : \A k \in 1..Len(frames[c]) : frames[c][k].type = "connected"
    /\ Len(db.notifs) = last.n0 + 1

\* send_personal_message returns to the handler in this step.
PushReturns ==
    /\ req # NoReq
    /\ req' = NoReq \/ req'.notified # req.notified \/ req'.todo # req.todo

\* C4: when a push in which a send raised returns, the handles whose send
\* raised are out of the registry, and unless an INSERT of the request fails
\* the handler goes on without an exception and keeps the row of the push.
C4_SendFailureSwallowed ==
    [][(PushReturns /\ req.push.dead # <<>>)
       => /\ \A i \in 1..Len(req.push.dead) : ~InRegistry(conns', req.push.dead[i])
          /\ req.fault = "none" =>
                LET after == IF req' = NoReq THEN db' ELSE req'.sess
                IN  /\ req' = NoReq => last'.out = "ok"
                    /\ req.push.data.id \in 1..Len(after.notifs)
                    /\ after.notifs[req.push.data.id] =
                          [user_id |-> req.push.user_id, is_read |-> FALSE]]_vars

\* A request committed after a send of its push raised: the channel is still
\* open at the endpoint, its peer is gone, and the registry has dropped it.
C4_Witness ==
    /\ last.out = "ok"
    /\ last.sends > 0
    /\ Len(db.notifs) = last.n0 + 1
    /\ \E c \in 1..Len(ws) :
          ws[c].pc = "loop" /\ ws[c].broken /\ ws[c].user_id = "bob" /\ ~InRegistry(conns, c)

\* C5: a request whose notification INSERT fails ends with that exception,
\* and no push loop is entered nor any send attempted for it.
C5_PersistFailurePropagates ==
    /\ req # NoReq => req.fault # "notifications"
    /\ (last.fault = "notifications" /\ last.notified # <<>>)
          => last.out = "DbError" /\ last.sends = 0

\* The INSERT failed in a request whose target is connected.
C5_Witness ==
    /\ last.fault = "notifications"
    /\ last.notified = <<"bob">>
    /\ last.out = "DbError"
    /\ is_connected(conns, "bob")

(* ------------------------ activity-log claim -------------------------- *)
\* C6: a request in which the activity-log INSERT fails does not fail for it.
C6_LogFailureSwallowed ==
    last.fault = "activity_logs" => last.out # "DbError"

(* ------------------------ authorization claims ------------------------ *)
\* The membership roles user holds in team_id.
RolesIn(s, team_id, user) ==
    {m.role : m \in {x \in s.members : x.team_id = team_id /\ x.user_id = user}}

\* The modify-task rule.
MayModify(s, task, user) ==
    \/ UserRole(user) = "admin"
    \/ task.owner_id = user
    \/ task.team_id # NoTeam /\ "manager" \in RolesIn(s, task.team_id, user)

\* The view-task rule.
MayView(s, task, user) ==
    \/ UserRole(user) = "admin"
    \/ task.owner_id = user
    \/ task.assigned_to_id = user
    \/ task.team_id # NoTeam /\ RolesIn(s, task.team_id, user) # {}

\* The TaskUpdate bodies tried on every task.
TaskUpdates ==
    [assigned_to_id : {Unset, NoUser} \cup UserIds, team_id : {UnsetTeam, NoTeam} \cup 1..MaxTeams]

\* C7: on every task of every reachable database, update_task, delete_task and
\* assign_task raise Forbidden for an actor exactly when the actor is neither
\* admin, nor the owner, nor a manager of the task's team; delete_task and
\* assign_task otherwise go through.  So an actor who is only the assignee or
\* only a plain member is denied, and the owner is let through without a
\* membership.
C7_ModifyRule ==
    \A t \in 1..Len(db.tasks), actor \in UserIds :
       LET task == db.tasks[t]
           allowed == MayModify(db, task, actor)
       IN  /\ \A task_in \in TaskUpdates :
                 update_task(db, t, task_in, actor).exc = "Forbidden" <=> ~allowed
           /\ delete_task(db, t, actor).exc = (IF allowed THEN "none" ELSE "Forbidden")
           /\ \A assignee \in UserIds :
                 assign_task(db, t, assignee, actor).exc
                    = (IF allowed THEN "none" ELSE "Forbidden")
           /\ (/\ UserRole(actor) # "admin"
               /\ task.owner_id # actor
               /\ "manager" \notin RolesIn(db, task.team_id, actor)) => ~allowed
           /\ task.owner_id = actor => allowed

\* The owner of a task archived it while the task was in a team the owner
\* holds no membership in.
C7_Witness ==
    /\ last.op = "delete_task"
    /\ last.out = "ok"
    /\ UserRole(last.actor) = "user"
    /\ db.tasks[last.id].owner_id = last.actor
    /\ db.tasks[last.id].team_id # NoTeam
    /\ RolesIn(db, db.tasks[last.id].team_id, last.actor) = {}

\* C8: on every task of every reachable database, get_task returns the task to
\* an actor who is admin, owner, assignee or a member of the task's team, and
\* raises Forbidden for every other actor.
C8_ViewRule ==
    \A t \in 1..Len(db.tasks), actor \in UserIds :
       get_task(db, t, actor).exc
          = (IF MayView(db, db.tasks[t], actor) THEN "none" ELSE "Forbidden")

\* A plain member of the task's team, neither owner nor assignee, read the task.
C8_Witness ==
    /\ last.op = "get_task"
    /\ last.out = "ok"
    /\ UserRole(last.actor) = "user"
    /\ db.tasks[last.id].owner_id # last.actor
    /\ db.tasks[last.id].assigned_to_id # last.actor
    /\ RolesIn(db, db.tasks[last.id].team_id, last.actor) = {"member"}

\* C9: for every team and every caller, remove_member of the team's owner
\* raises Forbidden with the owner rule's message (so before the privilege
\* check is made) and writes nothing: the owner's membership stays.
C9_OwnerNotRemovable ==
    /\ \A team_id \in 1..Len(db.teams), actor \in UserIds :
          TeamExists(db, team_id) =>
             LET h == remove_member(db, team_id, db.teams[team_id].owner_id, actor)
             IN  /\ h.exc = "Forbidden"
                 /\ h.detail = "Cannot remove the team owner"
                 /\ h.sess = db
    /\ (/\ last.op = "remove_member"
        /\ TeamExists(db, last.id)
        /\ db.teams[last.id].owner_id = last.target)
       => /\ last.out = "Forbidden"
          /\ RolesIn(db, last.id, last.target) # {}

\* An admin who is not the owner asked to remove the owner and was refused.
C9_Witness ==
    /\ last.op = "remove_member"
    /\ last.out = "Forbidden"
    /\ TeamExists(db, last.id)
    /\ db.teams[last.id].owner_id = last.target
    /\ UserRole(last.actor) = "admin"
    /\ last.actor # last.target
    /\ RolesIn(db, last.id, last.target) = {"manager"}

\* C10: update_team, delete_team and update_member_role (of a member) by the
\* team's owner or an admin succeed, and update_team leaves the new name.
C10_OwnerOrAdminSucceeds ==
    (/\ last.op \in {"update_team", "delete_team", "update_member_role"}
     /\ last.id \in 1..Len(db.teams)
     /\ UserRole(last.actor) = "admin" \/ db.teams[last.id].owner_id = last.actor
     /\ last.op = "update_member_role" => RolesIn(db, last.id, last.target) # {})
    => /\ last.out = "ok"
       /\ last.op = "update_team" => db.teams[last.id].name = "new"

(* --------------------------- team claims ------------------------------ *)
\* C11: on every team of every reachable database, update_team, delete_team
\* and update_member_role raise Forbidden for every actor who is neither admin
\* nor the team's owner, a manager included, and write nothing.
C11_TeamAdminDenied ==
    \A team_id \in 1..Len(db.teams), actor \in UserIds :
       (/\ TeamExists(db, team_id)
        /\ UserRole(actor) # "admin"
        /\ db.teams[team_id].owner_id # actor)
       => /\ update_team(db, team_id, "new", actor) = Raise(db, "Forbidden")
          /\ delete_team(db, team_id, actor) = Raise(db, "Forbidden")
          /\ \A u \in UserIds, role \in TeamMemberRole :
                update_member_role(db, team_id, u, role, actor) = Raise(db, "Forbidden")

\* A manager of the team who is not its owner asked to rename it and was refused.
C11_Witness ==
    /\ last.op = "update_team"
    /\ last.out = "Forbidden"
    /\ TeamExists(db, last.id)
    /\ UserRole(last.actor) = "user"
    /\ db.teams[last.id].owner_id # last.actor
    /\ RolesIn(db, last.id, last.actor) = {"manager"}
    /\ db.teams[last.id].name = "old"

\* The add/remove-member rule.
MayManage(s, team_id, user) ==
    \/ UserRole(user) = "admin"
    \/ s.teams[team_id].owner_id = user
    \/ "manager" \in RolesIn(s, team_id, user)

\* C12: on every team of every reachable database, add_member, and
\* remove_member of a user other than the owner, raise Forbidden exactly for
\* the actors who are neither admin, nor the owner, nor a manager of the team;
\* for the others they go through or end on the target (NotFound, Conflict).
C12_ManageMembersRule ==
    \A team_id \in 1..Len(db.teams), actor \in UserIds :
       TeamExists(db, team_id) =>
          LET allowed == MayManage(db, team_id, actor)
          IN  /\ \A u \in UserIds \cup {GhostUser}, role \in TeamMemberRole :
                    LET h == add_member(db, team_id, [user_id |-> u, role |-> role], actor)
                    IN  /\ h.exc = "Forbidden" <=> ~allowed
                        /\ (allowed /\ u \in UserIds /\ RolesIn(db, team_id, u) = {})
                              => h.exc = "none"
              /\ \A u \in UserIds \ {db.teams[team_id].owner_id} :
                    LET h == remove_member(db, team_id, u, actor)
                    IN  /\ h.exc = "Forbidden" <=> ~allowed
                        /\ (allowed /\ RolesIn(db, team_id, u) # {}) => h.exc = "none"
              /\ (/\ UserRole(actor) # "admin"
                  /\ db.teams[team_id].owner_id # actor
                  /\ RolesIn(db, team_id, actor) \subseteq {"member"}) => ~allowed

\* A manager who is neither the owner nor an admin added a member.
C12_Witness ==
    /\ last.op = "add_member"
    /\ last.out = "ok"
    /\ UserRole(last.actor) = "user"
    /\ db.teams[last.id].owner_id # last.actor
    /\ RolesIn(db, last.id, last.actor) = {"manager"}
    /\ RolesIn(db, last.id, last.target) # {}

\* C13: add_member of a user who holds a membership in the team raises
\* Conflict and writes nothing, whatever role is asked for; and no (team, user)
\* pair has two membership rows.
C13_NoDuplicateMembership ==
    /\ \A m1 \in db.members, m2 \in db.members :
          (m1.team_id = m2.team_id /\ m1.user_id = m2.user_id) => m1 = m2
    /\ \A team_id \in 1..Len(db.teams), actor \in UserIds, u \in UserIds,
          role \in TeamMemberRole :
          (/\ TeamExists(db, team_id)
           /\ MayManage(db, team_id, actor)
           /\ RolesIn(db, team_id, u) # {})
          => add_member(db, team_id, [user_id |-> u, role |-> role], actor)
                = Raise(db, "Conflict")
    /\ (last.op = "add_member" /\ last.out = "Conflict")
          => Cardinality({m \in db.members :
                            m.team_id = last.id /\ m.user_id = last.target}) = 1

\* A second add_member of a user who had joined as a plain member was refused.
C13_Witness ==
    /\ last.op = "add_member"
    /\ last.out = "Conflict"
    /\ last.target # db.teams[last.id].owner_id
    /\ {m \in db.members : m.team_id = last.id /\ m.user_id = last.target}
          = {[team_id |-> last.id, user_id |-> last.target, role |-> "member"]}

(* ------------------------ more task claims ---------------------------- *)
\* C14: on every team of every reachable database, create_task with the
\* team's id creates the task, owned by the actor and in the team, for an
\* admin and for every actor holding a membership in the team; for every
\* other actor it raises Forbidden and writes nothing.
C14_CreateTeamTaskRule ==
    \A team_id \in 1..Len(db.teams), actor \in UserIds, assignee \in UserIds \cup {NoUser} :
       TeamExists(db, team_id) =>
          LET h == create_task(db, [assigned_to_id |-> assignee, team_id |-> team_id], actor)
          IN  IF UserRole(actor) = "admin" \/ RolesIn(db, team_id, actor) # {}
              THEN /\ h.exc = "none"
                   /\ h.sess.tasks = Append(db.tasks, [owner_id |-> actor,
                                                       assigned_to_id |-> assignee,
                                                       team_id |-> team_id,
                                                       is_archived |-> FALSE])
              ELSE h = Raise(db, "Forbidden")

\* An admin without a membership created a task in the team.
C14_Witness ==
    /\ last.op = "create_task"
    /\ last.out = "ok"
    /\ UserRole(last.actor) = "admin"
    /\ db.tasks[last.id].owner_id = last.actor
    /\ db.tasks[last.id].team_id # NoTeam
    /\ RolesIn(db, db.tasks[last.id].team_id, last.actor) = {}

\* The view-team rule.
MayViewTeam(s, team_id, user) ==
    \/ UserRole(user) = "admin"
    \/ s.teams[team_id].owner_id = user
    \/ RolesIn(s, team_id, user) # {}

\* C15: on every team of every reachable database, get_team returns the team
\* to an admin, to the team's owner and to every holder of a membership, and
\* raises Forbidden for every other actor.
C15_ViewTeamRule ==
    \A team_id \in 1..Len(db.teams), actor \in UserIds :
       TeamExists(db, team_id) =>
          get_team(db, team_id, actor).exc
             = (IF MayViewTeam(db, team_id, actor) THEN "none" ELSE "Forbidden")

\* A plain member who is not the owner read the team.
C15_Witness ==
    /\ last.op = "get_team"
    /\ last.out = "ok"
    /\ UserRole(last.actor) = "user"
    /\ db.teams[last.id].owner_id # last.actor
    /\ RolesIn(db, last.id, last.actor) = {"member"}

\* C16: once the owner of a team has asked update_member_role to make a
\* member of the team a manager, that member's update of a task the owner
\* keeps in the team goes through.
C16_PromotedMemberUpdates ==
    (/\ last.op = "update_member_role"
     /\ TeamExists(db, last.id)
     /\ db.teams[last.id].owner_id = last.actor
     /\ last.target # last.actor
     /\ RolesIn(db, last.id, last.target) # {})
    => /\ last.out = "ok"
       /\ \A t \in 1..Len(db.tasks) :
             (db.tasks[t].team_id = last.id /\ db.tasks[t].owner_id = last.actor)
             => update_task(db, t, [assigned_to_id |-> Unset, team_id |-> UnsetTeam],
                            last.target).exc = "none"

\* The filters tried on every database.
TaskFilters ==
    [assigned_to_id : {NoUser} \cup UserIds, team_id : 0..MaxTeams, is_archived : BOOLEAN,
     page : 1..MaxPage, size : 1..MaxSize]

\* The tasks that match the filters and that the actor may see in a list.
Scoped(s, filters, actor) ==
    {i \in 1..Len(s.tasks) :
        /\ s.tasks[i].is_archived = filters.is_archived
        /\ filters.assigned_to_id # NoUser => s.tasks[i].assigned_to_id = filters.assigned_to_id
        /\ filters.team_id # NoTeam => s.tasks[i].team_id = filters.team_id
        /\ \/ UserRole(actor) = "admin"
           \/ s.tasks[i].owner_id = actor
           \/ s.tasks[i].assigned_to_id = actor
           \/ RolesIn(s, s.tasks[i].team_id, actor) # {}}

\* C17: on every reachable database, for every actor and every filter,
\* list_tasks returns as total the number of matching tasks the actor owns,
\* is assigned, or holds a membership in the team of (all matching tasks for
\* an admin), whatever the page and the size, and as items the page's slice of
\* exactly those tasks, newest first.
C17_ListTasksScoped ==
    \A actor \in UserIds, filters \in TaskFilters :
       LET r == list_tasks(db, filters, actor)
           scoped == Scoped(db, filters, actor)
           skip == (filters.page - 1) * filters.size
           rest == IF Cardinality(scoped) > skip THEN Cardinality(scoped) - skip ELSE 0
       IN  /\ r.total = Cardinality(scoped)
           /\ Len(r.items) = (IF rest < filters.size THEN rest ELSE filters.size)
           /\ \A k \in 1..Len(r.items) :
                 /\ r.items[k] \in scoped
                 /\ Cardinality({i \in scoped : i > r.items[k]}) = skip + k - 1

\* A user listed the tasks and got one that is neither theirs nor assigned to
\* them, in a team they are a member of.
C17_Witness ==
    /\ last.op = "list_tasks"
    /\ last.out = "ok"
    /\ UserRole(last.actor) = "user"
    /\ list_tasks(db, DefaultFilter, last.actor).items = <<1>>
    /\ db.tasks[1].owner_id # last.actor
    /\ db.tasks[1].assigned_to_id # last.actor
    /\ RolesIn(db, db.tasks[1].team_id, last.actor) # {}

(* ------------------------- registry claims ---------------------------- *)
\* The handles registered for the user.
Handles(registry, user_id) ==
    IF user_id \in DOMAIN registry
    THEN {registry[user_id][k] : k \in 1..Len(registry[user_id])}
    ELSE {}

\* C18: on every reachable registry and for every user, is_connected is true
\* iff the user has at least one registered handle: it is false while the
\* user has none, true after a connect of a new handle for the user, and after
\* the disconnect of that same handle it is what it was before the connect,
\* false when the user had no other handle.
C18_IsConnectedRule ==
    \A u \in UserIds :
       /\ is_connected(conns, u) <=> Handles(conns, u) # {}
       /\ \A h \in 1..(MaxChans + 1) :
             ~InRegistry(conns, h)
             => LET connected == connect(conns, h, u)
                    back == disconnect(connected, h, u)
                IN  /\ is_connected(connected, u)
                    /\ Handles(connected, u) = Handles(conns, u) \cup {h}
                    /\ Handles(back, u) = Handles(conns, u)
                    /\ is_connected(back, u) <=> Handles(conns, u) # {}

\* An endpoint connected, ended and disconnected; bob holds the handle of
\* another one, and alice holds none.
C18_Witness ==
    /\ Len(ws) = 2
    /\ ws[1] = Closed
    /\ ws[2].user_id = "bob"
    /\ is_connected(conns, "bob")
    /\ Handles(conns, "bob") = {2}
    /\ ~is_connected(conns, "alice")

\* No endpoint has ended, and the user's two channels are the two handles of
\* the user's entry: nothing but the call itself changes the entry.
TwoHandles(user_id) ==
    /\ \A c \in 1..Len(ws) : ws[c] # Closed
    /\ Cardinality(Handles(conns, user_id)) = 2
    /\ {c \in 1..Len(ws) : ws[c].user_id = user_id} = Handles(conns, user_id)

\* C20: when send_personal_message returns for a user with two registered
\* handles, a send has been attempted on both (it delivered the message or it
\* raised), the handles left in the registry are the two less those whose send
\* raised, and when exactly one send raised the user is still connected
\* through the other handle.  (Endpoints of the user that end during the call
\* are left aside here.)
C20_TwoHandlesOneFails ==
    [][\A u \in UserIds :
          (SendDone /\ req.push.user_id = u /\ ~req.push.detached /\ TwoHandles(u))
          => LET dead == {req.push.dead[k] : k \in 1..Len(req.push.dead)}
             IN  /\ req.push.idx = 3
                 /\ \A h \in Handles(conns, u) :
                       h \in dead \/ frames[h][Len(frames[h])] = req.push.data
                 /\ Handles(conns', u) = Handles(conns, u) \ dead
                 /\ Cardinality(dead) = 1 =>
                       /\ is_connected(conns', u)
                       /\ Cardinality(Handles(conns', u)) = 1]_vars

\* A request pushed to bob's two handles: the send on the first raised and
\* that handle has left the registry, the send on the second delivered the
\* notification and that handle is still registered.
C20_Witness ==
    /\ last.out = "ok"
    /\ last.sends = 2
    /\ Len(ws) = 2
    /\ \A c \in 1..2 : ws[c].user_id = "bob" /\ ws[c].pc = "loop"
    /\ ws[1].broken
    /\ Handles(conns, "bob") = {2}
    /\ is_connected(conns, "bob")
    /\ frames[2][Len(frames[2])].type = "notification"

\* C19: in every state the connection manager reaches through connect,
\* disconnect, send_personal_message and broadcast, every user id of the
\* registry maps to a list with at least one handle.
C19_NoEmptyEntry ==
    \A u \in DOMAIN conns : conns[u] # <<>>

\* No request has run, and a handle whose endpoint has not ended is out of the
\* registry with the entry of its user: a broadcast removed the user's last
\* handle.
C19_Witness ==
    /\ last = NoLast
    /\ req = NoReq
    /\ bcast = NoBroadcast
    /\ \E c \in 1..Len(ws) :
          /\ ws[c].pc = "loop"
          /\ ws[c].broken
          /\ ws[c].user_id \notin DOMAIN conns

\* C21: on every reachable registry, disconnect of a handle that is not in
\* the user's list (the handle was removed before, or the user has no entry)
\* returns the registry as it was, and for every handle and user a second
\* disconnect changes nothing after the first.
C21_DisconnectIdempotent ==
    \A u \in UserIds, h \in 1..(MaxChans + 1) :
       /\ h \notin Handles(conns, u) => disconnect(conns, h, u) = conns
       /\ disconnect(disconnect(conns, h, u), h, u) = disconnect(conns, h, u)

\* The endpoint of bob's handle has not ended and a failed send has taken the
\* handle out of the registry, bob's entry with it, while alice holds one: the
\* endpoint's disconnect is still to come.
C21_Witness ==
    /\ \E c \in 1..Len(ws) :
          /\ ws[c].pc = "loop"
          /\ ws[c].user_id = "bob"
          /\ ~InRegistry(conns, c)
    /\ "bob" \notin DOMAIN conns
    /\ "alice" \in DOMAIN conns

(* ------------------------- broadcast claims --------------------------- *)
\* Every handle of the registry.
AllHandles(registry) == UNION {Handles(registry, u) : u \in DOMAIN registry}

\* The elements of a sequence.
Range(q) == {q[k] : k \in 1..Len(q)}

\* C22: when broadcast returns, a send has been attempted on every handle that
\* was registered when the call started and that no other task has
\* disconnected since, and the call removes from the registry the handles
\* whose send raised and no other.
C22_BroadcastReachesAll ==
    [][BroadcastDone =>
          /\ \A h \in AllHandles(bcast.first) \cap AllHandles(conns) :
                h \in Range(bcast.tried)
          /\ AllHandles(conns') =
                AllHandles(conns) \ {bcast.dead[k].ws : k \in 1..Len(bcast.dead)}]_vars

(* -------------------------- endpoint claims --------------------------- *)
\* C23: a handle whose heartbeat ended on a ping that could not be sent is
\* eventually out of the registry.
C23_FailedPingDisconnects ==
    \A c \in 1..MaxChans :
       (c \in 1..Len(ws) /\ ws[c].hb = "ended") ~> ~InRegistry(conns, c)

\* The connection came without a token, with a token that is not a valid
\* access token, or with the token of another user than the one of the path.
Unauthenticated(w) ==
    \/ w.token = NoToken
    \/ w.token = BadToken
    \/ w.token # w.user_id

\* C24: a connection that comes with no token, an invalid token or the token
\* of another user is closed with a close code in the step that handles it,
\* which leaves the registry as it was, and its channel is never registered
\* afterwards.
C24_RejectedNeverRegistered ==
    [][/\ (Len(ws') > Len(ws) /\ Unauthenticated(ws'[Len(ws')]))
          => /\ conns' = conns
             /\ ws'[Len(ws')].pc = "rejected"
             /\ ws'[Len(ws')].code # NoCode
       /\ \A c \in 1..Len(ws) :
             ws[c].pc = "rejected" => ws'[c] = ws[c] /\ ~InRegistry(conns', c)]_vars

\* bob is connected, and a connection to /ws/bob that came with alice's token
\* has been refused.
C24_Witness ==
    /\ Len(ws) = 2
    /\ ws[1].pc = "loop"
    /\ ws[2].pc = "rejected"
    /\ ws[2].user_id = "bob"
    /\ ws[2].token = "alice"
    /\ ws[2].code = MismatchCode
    /\ conns = [u \in {"bob"} |-> <<1>>]

\* Why a refused connection was refused.
CauseOf(w) ==
    IF w.token = NoToken THEN "missing"
    ELSE IF w.token = BadToken THEN "invalid"
    ELSE "mismatch"

\* C25: two connections refused for different causes (no token, invalid or
\* expired token, token of another user) are closed with different codes.
C25_DistinctCloseCodes ==
    \A i, j \in 1..Len(ws) :
       (/\ ws[i].pc = "rejected"
        /\ ws[j].pc = "rejected"
        /\ CauseOf(ws[i]) # CauseOf(ws[j]))
       => ws[i].code # ws[j].code

\* C26: on every channel of an accepted connection the first frame sent is
\* the connected acknowledgement with the user id of the connection, and every
\* ping and notification frame comes after it.
C26_ConnectedFirst ==
    \A c \in 1..Len(ws) :
       /\ ws[c].pc = "loop" => frames[c] # <<>>
       /\ frames[c] # <<>> =>
             /\ frames[c][1] = ConnectedFrame(ws[c].user_id)
             /\ \A k \in 2..Len(frames[c]) : frames[c][k].type \in {"ping", "notification"}

\* A channel that has carried the acknowledgement, a ping and a notification.
C26_Witness ==
    \E c \in 1..Len(ws) :
       /\ Len(frames[c]) = 3
       /\ frames[c][1].type = "connected"
       /\ frames[c][2].type = "ping"
       /\ frames[c][3].type = "notification"

\* C27: a channel that has been opened and is not in the registry (its handle
\* was removed, or it was never accepted) is not in the registry after any
\* step, and the handles a step adds to the registry are channels the step
\* has opened.
C27_DisconnectIsTerminal ==
    [][/\ \A h \in 1..Len(ws) : ~InRegistry(conns, h) => ~InRegistry(conns', h)
       /\ AllHandles(conns') \ AllHandles(conns) \subseteq (Len(ws) + 1)..Len(ws')]_vars

\* A failed send has removed bob's first handle, whose endpoint has not
\* ended, and bob is connected again through a second channel.
C27_Witness ==
    /\ Len(ws) = 2
    /\ ws[1].user_id = "bob"
    /\ ws[1].pc = "loop"
    /\ ~InRegistry(conns, 1)
    /\ ws[2].user_id = "bob"
    /\ Handles(conns, "bob") = {2}

\* The number of frames of the type on the channel.
CountFrames(c, type) ==
    Cardinality({k \in 1..Len(frames[c]) : frames[c][k].type = type})

\* C28: on a live connection whose peer is there, while no request has
\* notified anyone, the heartbeat has sent exactly one ping per interval it
\* has slept, and the channel has carried its acknowledgement, these pings and
\* nothing else.
C28_OnePingPerInterval ==
    \A c \in 1..Len(ws) :
       (ws[c].pc = "loop" /\ ~ws[c].broken /\ last = NoLast /\ req = NoReq)
       => /\ CountFrames(c, "ping") * HEARTBEAT_INTERVAL = ws[c].slept
          /\ CountFrames(c, "notification") = 0
          /\ Len(frames[c]) = 1 + CountFrames(c, "ping")

\* Two intervals into an idle connection.
C28_Witness ==
    /\ last = NoLast
    /\ req = NoReq
    /\ \E c \in 1..Len(ws) :
          /\ ws[c].pc = "loop"
          /\ ~ws[c].broken
          /\ ws[c].slept = 2 * HEARTBEAT_INTERVAL
          /\ CountFrames(c, "ping") = 2

(* ------------------------ concurrency claims -------------------------- *)
\* C29: when send_personal_message returns, a send has been attempted on
\* every handle that was in the user's list when the call started and that no
\* other task has disconnected since.
C29_EveryHandleTried ==
    [][SendDone =>
          \A h \in Range(req.push.first) \cap Handles(conns, req.push.user_id) :
             h \in Range(req.push.tried)]_vars

\* The loop is suspended in a send on channel c that has not raised: the
\* last handle it tried is c.
SendingOn(loop, dead, c) ==
    /\ loop.tried # <<>>
    /\ loop.tried[Len(loop.tried)] = c
    /\ c \notin dead

\* The sends in flight on channel c: the ping of its heartbeat, the send of
\* the handler suspended in send_personal_message, the send of broadcast.
InFlight(c) ==
    (IF ws[c].hb = "send" THEN 1 ELSE 0)
    + (IF req # NoReq /\ SendingOn(req.push, Range(req.push.dead), c) THEN 1 ELSE 0)
    + (IF bcast # NoBroadcast
          /\ SendingOn(bcast, {bcast.dead[k].ws : k \in 1..Len(bcast.dead)}, c)
       THEN 1 ELSE 0)

\* C30: at no time are two sends in flight on the same channel.
C30_WritesSerialized ==
    \A c \in 1..Len(ws) : InFlight(c) <= 1

(* -------------------- claims C31.. on the heartbeat ------------------- *)
\* C31: no ping is attempted on a handle after its removal from the
\* registry: every step of a heartbeat that sends its ping, or tries to, is
\* taken while its handle is in the registry.
C31_NoPingAfterRemoval ==
    [][\A c \in 1..MaxChans : HeartbeatSend(c) => InRegistry(conns, c)]_vars
(* ------------------- claims on the registry, again -------------------- *)
\* The handles of the user whose connect completes in the step.
Connected(user_id) ==
    {c \in 1..Len(ws') : c > Len(ws) /\ ws'[c].pc = "loop" /\ ws'[c].user_id = user_id}

\* The handles disconnect is called with for the user in the step: by an
\* endpoint that ends, and by send_personal_message and broadcast for the
\* handles whose send raised.
Disconnected(user_id) ==
    {c \in 1..Len(ws) : ws[c].pc = "loop" /\ ws'[c].pc = "closed" /\ ws[c].user_id = user_id}
    \cup (IF SendDone /\ req.push.user_id = user_id THEN Range(req.push.dead) ELSE {})
    \cup (IF BroadcastDone
          THEN {bcast.dead[k].ws : k \in {j \in 1..Len(bcast.dead) :
                                              bcast.dead[j].user_id = user_id}}
          ELSE {})

\* C32: under every interleaving of the endpoints, the pushes and broadcast,
\* each step leaves in the list of each user the handles it held before with
\* those whose connect completed in the step, less those disconnect was called
\* with in the step, each once: no handle is lost and none is duplicated.
C32_RegistryExact ==
    [][\A u \in UserIds :
          /\ Handles(conns', u) = (Handles(conns, u) \cup Connected(u)) \ Disconnected(u)
          /\ u \in DOMAIN conns' => Len(conns'[u]) = Cardinality(Handles(conns', u))]_vars

\* Two endpoints of bob connected one after the other while a broadcast was in
\* its loops; the first one has ended since and the second handle is the one
\* the registry holds for bob.
C32_Witness ==
    /\ Len(ws) = 2
    /\ ws[1] = Closed
    /\ ws[2].user_id = "bob"
    /\ ws[2].pc = "loop"
    /\ bcast # NoBroadcast
    /\ bcast.first = [u \in {"bob"} |-> <<1>>]
    /\ conns = [u \in {"bob"} |-> <<2>>]
(* -------------------- claims on fresh decisions ----------------------- *)
\* What a step that ends B's membership, or B's manager role, in the team of a
\* task B does not own leaves B with: get_task of the task is refused to B
\* unless B is its assignee, and every update_task of it by B is refused.
DeniedAfter(B) ==
    \A t \in 1..Len(db'.tasks) :
       LET task == db'.tasks[t]
           T == task.team_id
       IN  (T # NoTeam /\ task.owner_id # B)
           => /\ (RolesIn(db, T, B) # {} /\ RolesIn(db', T, B) = {}
                  /\ task.assigned_to_id # B)
                 => get_task(db', t, B).exc = "Forbidden"
              /\ ("manager" \in RolesIn(db, T, B) /\ "manager" \notin RolesIn(db', T, B))
                 => \A task_in \in TaskUpdates :
                       update_task(db', t, task_in, B).exc = "Forbidden"

C34_RowsKeptReadByTarget ==
    [][/\ Len(db'.notifs) >= Len(db.notifs)
       /\ \A i \in 1..Len(db.notifs) :
             /\ db'.notifs[i].user_id = db.notifs[i].user_id
             /\ db.notifs[i].is_read => db'.notifs[i].is_read
             /\ db'.notifs[i].is_read # db.notifs[i].is_read
                => /\ last'.out = "ok"
                   /\ last'.actor = db.notifs[i].user_id
                   /\ \/ last'.op = "mark_all_read"
                      \/ last'.op = "mark_as_read" /\ last'.id = i
       /\ \A i \in 1..Len(db.notifs), actor \in UserIds :
             actor # db.notifs[i].user_id
             => /\ mark_as_read(db, i, actor).exc = "NotFound"
                /\ get_db(db, mark_as_read(db, i, actor)) = db]_vars

\* alice asked to mark bob's unread row as read and got NotFound: the row is
\* still unread, while alice's own row is read.
C34_Witness ==
    /\ last.op = "mark_as_read"
    /\ last.actor = "alice"
    /\ last.out = "NotFound"
    /\ last.id \in 1..Len(db.notifs)
    /\ db.notifs[last.id] = [user_id |-> "bob", is_read |-> FALSE]
    /\ \E i \in 1..Len(db.notifs) : db.notifs[i] = [user_id |-> "alice", is_read |-> TRUE]
(* ----------------------- claims on refresh tokens --------------------- *)
\* The refresh token of the k-th pair handed out.
RefreshToken(s, k) == [sub |-> s.minted[k], type |-> "refresh", jti |-> k]

\* Presenting the token fails with the invalid-token error and leaves the
\* database, the tokens handed out included, as it was.
Rejected(s, token) ==
    /\ refresh_access_token(s, token).exc = "InvalidToken"
    /\ get_db(s, refresh_access_token(s, token)) = s

\* C35: a refresh token R that has been handed out is rejected, and issues no
\* tokens, after every step that is a successful refresh with R, a successful
\* login of R's user or a successful logout of R's user; and once R is rejected
\* it is rejected after every later step.
C35_RefreshTokenOnce ==
    [][\A k \in 1..Len(db.minted) :
          /\ (/\ last'.out = "ok"
              /\ \/ last'.op = "refresh" /\ last'.id = k
                 \/ last'.op \in {"login", "logout"} /\ last'.actor = db.minted[k])
             => Rejected(db', RefreshToken(db, k))
          /\ Rejected(db, RefreshToken(db, k)) => Rejected(db', RefreshToken(db, k))]_vars

\* The refresh token of the first pair was presented and refused: the stored
\* hash of its user is that of the token a refresh with it returned.
C35_Witness ==
    /\ last.op = "refresh"
    /\ last.out = "InvalidToken"
    /\ last.id = 1
    /\ Len(db.minted) = 2
    /\ db.minted[1] = db.minted[2]
    /\ db.logs = 1
    /\ db.hash[db.minted[1]] = hash_token(RefreshToken(db, 2))
(* ------------------------ claims on team owners ----------------------- *)
\* C36: the team a create_team has just made has its creator as owner and as
\* a member with the manager role, and in every reachable database the owner
\* of every existing team holds a membership row of that team.
C36_OwnerHoldsMembership ==
    /\ (last.op = "create_team" /\ last.out = "ok")
       => /\ db.teams[last.id].owner_id = last.actor
          /\ RolesIn(db, last.id, last.actor) = {"manager"}
    /\ \A team_id \in 1..Len(db.teams) :
          TeamExists(db, team_id) => RolesIn(db, team_id, db.teams[team_id].owner_id) # {}

\* A manager who is not the owner asked to remove the owner of the team and
\* was refused: the owner's row is there, next to the manager's.
C36_Witness ==
    /\ last.op = "remove_member"
    /\ last.out = "Forbidden"
    /\ TeamExists(db, last.id)
    /\ db.teams[last.id].owner_id = last.target
    /\ UserRole(last.actor) = "user"
    /\ last.actor # last.target
    /\ RolesIn(db, last.id, last.actor) = {"manager"}
    /\ RolesIn(db, last.id, last.target) = {"manager"}
(* ------------------------ claims on task reads ------------------------ *)
\* C37: on every reachable database, get_task refuses a task to an actor who
\* is not an admin, neither its owner nor its assignee, and holds no
\* membership in its team, and neither list_tasks nor list_team_tasks returns
\* the task to that actor, whatever the filters, the team and the page.
C37_ReadsWithhold ==
    \A actor \in UserIds, t \in 1..Len(db.tasks) :
       (/\ UserRole(actor) # "admin"
        /\ db.tasks[t].owner_id # actor
        /\ db.tasks[t].assigned_to_id # actor
        /\ RolesIn(db, db.tasks[t].team_id, actor) = {})
       => /\ get_task(db, t, actor).exc = "Forbidden"
          /\ \A filters \in TaskFilters : t \notin Range(list_tasks(db, filters, actor).items)
          /\ \A team_id \in 1..MaxTeams, page \in 1..MaxPage, size \in 1..MaxSize,
                include_archived \in BOOLEAN :
                t \notin Range(list_team_tasks(db, team_id, actor, page, size,
                                               include_archived).items)
(* --------------------- claims on team placement ----------------------- *)
\* C38: every step that puts a task into a team, a create_task with a team or
\* an update_task that changes the task's team_id to it, is the request of an
\* actor who is admin or holds a membership in that team.
C38_PlacementNeedsMembership ==
    [][\A t \in 1..Len(db'.tasks) :
          LET T == db'.tasks[t].team_id
          IN  (T # NoTeam /\ (t > Len(db.tasks) \/ db.tasks[t].team_id # T))
              => /\ last'.op \in {"create_task", "update_task"}
                 /\ \/ UserRole(last'.actor) = "admin"
                    \/ RolesIn(db, T, last'.actor) # {}]_vars
(* --------------------- claims on pushed frames ------------------------ *)
\* C39: once the request that pushed it has ended, every notification frame
\* delivered on a channel carries the id of a committed row of the channel's
\* user: a request that is rolled back has pushed no frame.
C39_PushedRowsCommitted ==
    req = NoReq =>
       \A c \in 1..Len(frames) : \A k \in 1..Len(frames[c]) :
          frames[c][k].type = "notification"
          => /\ frames[c][k].id \in 1..Len(db.notifs)
             /\ db.notifs[frames[c][k].id].user_id = ws[c].user_id
(* --------------------- claims on denied requests ---------------------- *)
\* The ways a request is denied or rejected.
Denied == {"Forbidden", "Conflict", "NotFound"}

\* What the modifying handlers leave behind on the database s, for every
\* caller and every input, ids of no row included.
Attempts(s) ==
    LET actors == UserIds
        tasks == 1..(MaxTasks + 1)
        teams == 1..(MaxTeams + 1)
        users == UserIds \cup {GhostUser}
    IN  {update_task(s, t, task_in, a) : t \in tasks, task_in \in TaskUpdates, a \in actors}
        \cup {delete_task(s, t, a) : t \in tasks, a \in actors}
        \cup {assign_task(s, t, u, a) : t \in tasks, u \in UserIds, a \in actors}
        \cup {add_member(s, T, [user_id |-> u, role |-> r], a) :
                 T \in teams, u \in users, r \in TeamMemberRole, a \in actors}
        \cup {remove_member(s, T, u, a) : T \in teams, u \in users, a \in actors}
        \cup {update_team(s, T, "new", a) : T \in teams, a \in actors}
        \cup {delete_team(s, T, a) : T \in teams, a \in actors}
        \cup {update_member_role(s, T, u, r, a) :
                 T \in teams, u \in users, r \in TeamMemberRole, a \in actors}

\* C40: on every reachable database, each of update_task, delete_task,
\* assign_task, add_member, remove_member, update_team, delete_team and
\* update_member_role that ends with Forbidden, Conflict or NotFound has written
\* nothing to its session and has no notification and no activity-log entry
\* left to make, and the database after the request is the database before it;
\* and the last request, when it was denied, called notify_user for nobody,
\* attempted no send and left the notification rows as many as they were.
C40_DeniedChangesNothing ==
    /\ \A h \in Attempts(db) :
          h.exc \in Denied => h.sess = db /\ h.todo = <<>> /\ get_db(db, h) = db
    /\ (/\ last.op \in {"update_task", "delete_task", "assign_task", "add_member",
                        "remove_member", "update_team", "delete_team", "update_member_role"}
        /\ last.out \in Denied)
       => /\ last.notified = <<>>
          /\ last.sends = 0
          /\ Len(db.notifs) = last.n0

\* bob, a plain member of the team of alice's task who is assigned to it,
\* asked to assign it to himself and was refused.
C40_Witness ==
    /\ last.op = "assign_task"
    /\ last.out = "Forbidden"
    /\ last.actor = "bob"
    /\ db.tasks[last.id].owner_id = "alice"
    /\ db.tasks[last.id].assigned_to_id = "bob"
    /\ RolesIn(db, db.tasks[last.id].team_id, "bob") = {"member"}
    /\ last.notified = <<>>
=============================================================================
